---- MODULE Spec2Model ----
(***************************************************************************)
(* Per-session dispatch engine of server/sender.ts (the second half of the *)
(* file src/.../server/storage.ts, from line 211 on) together with the     *)
(* storage methods it calls.                                               *)
(*                                                                         *)
(* One session is modelled: every function of the engine works on          *)
(* getSession(sessionId) and on the configuration row of that sessionId    *)
(* only.  A step of the model is one turn of the JavaScript event loop: a  *)
(* callback (request handler, timer, completed I/O) together with every    *)
(* promise continuation that runs before the next real await.              *)
(*                                                                         *)
(* Strings that the code inspects character by character (the channel id   *)
(* list) are sequences of one-character strings.  Durations are integers   *)
(* in milliseconds.  startTime = Null stands for JavaScript null.          *)
(***************************************************************************)
EXTENDS Integers, Sequences, FiniteSets, TLC

VARIABLES
    s,             \* the SessionSender object of the session
    db,            \* the configs row of the session (storage)
    runs,          \* startSender invocations in progress and their runs
    channelNames,  \* the process-wide channel name cache, a Map id -> name
    incs,          \* storage.incrementSent calls in flight
    stopCall,      \* the stopSender / stopAllSenders call in progress
    ret,           \* what the last external call returned
    logs,          \* the emitLog calls of the last step, in order
    nSent,         \* history: delivery attempts that returned sent: true
    owed,          \* history: per destination, cooldown not yet waited out
    nReq,          \* history: requests received from outside so far
    userStop,      \* history: stopSender has stopped the session, no start request since
    boot,          \* restoreAllSessions: its position and what it read
    site,          \* the site lock, and the toggle-lock handler in progress
    fnArg,         \* the input of a function evaluated on its own
    fnRes,         \* its result, NoRes before the evaluation
    web            \* routes: liveStates, sessionClients, the clock, the last response

vars == <<s, db, runs, channelNames, incs, stopCall, ret, logs, nSent, owed, nReq,
          userStop, boot, site, fnArg, fnRes, web>>

----------------------------------------------------------------------------
(* Bounds of the model *)

MaxRuns == 2       \* startSender invocations / runs alive at the same time
MaxSent == 2       \* delivery attempts that return sent: true
MaxErrors == 3     \* consecutiveErrors is tracked exactly up to this value
MaxRetry == 3      \* supervisor iterations (retryNum) of one run, engine
MaxSupRetry == 13  \* supervisor iterations (retryNum) of one run, supervisor
MaxRows == 2       \* configs rows ever created for the session
MaxReq == 3        \* requests received from outside (routes, admin)
MaxLoops == 2      \* channel ids in one accepted channelIdsStr
MaxParseLen == 4   \* characters of a channelIdsStr parsed on its own
MaxClients == 2    \* websockets of the session open at once
MaxTicks == 6      \* advances of the clock
MaxLookups == 2    \* fetchChannelName calls awaiting their fetch at once

(* Program constants *)

Null == 0                  \* startTime: null
PollMs == 200              \* interruptibleSleep: setInterval(..., 200)
StartWaitStepMs == 300     \* startSender: setTimeout(r, 300)
StartWaitMaxMs == 5000     \* startSender: waited < 5000
StaggerMs == 2000          \* senderLoop: i * 2000
DefaultRetryAfterS == 5    \* sendOneMessage: data.retry_after || 5
RateLimitMarginMs == 1000  \* sendOneMessage: ... + 1000
TransientCooldownMs == 5000 \* sendOneMessage: cooldownMs: 5000
ForbiddenWaitMs == 60000   \* channelLoop: cooldownMs === -1 ? 60000
BackoffStepMs == 10000     \* channelLoop: 10000 * consecutiveErrors
BackoffMaxMs == 120000     \* channelLoop: Math.min(..., 120000)
WarnAboveSec == 5          \* channelLoop: waitSec > 5
RestartStepSec == 5        \* startSender: retryNum * 5
RestartMaxSec == 60        \* startSender: Math.min(..., 60)
DelayMin == 10             \* routes: Math.max(10, ...)
DelayMax == 250            \* routes: Math.min(250, ...)
DelayDefault == 30         \* routes: delay || 30
CodeUnauthorized == -401   \* sendOneMessage: cooldownMs: -401
CodeForbidden == -1        \* sendOneMessage: cooldownMs: -1

----------------------------------------------------------------------------
(* Arithmetic helpers *)

Min(a, b) == IF a <= b THEN a ELSE b
Max(a, b) == IF a >= b THEN a ELSE b

\* Math.ceil(n / d) for d > 0 and any integer n
CeilDiv(n, d) == IF n >= 0 THEN (n + d - 1) \div d ELSE -((-n) \div d)

----------------------------------------------------------------------------
(* Destination parsing: channelIdsStr.split(/[,\n]/).map(trim).filter(/^\d+$/) *)

Digits == {"0", "1", "2", "3", "4", "5", "6", "7", "8", "9"}
Separators == {",", "\n"}
Whitespace == {" ", "\t", "\r", "\n"}

\* String.prototype.split(/[,\n]/): the pieces between separators, empty ones kept
RECURSIVE SplitAcc(_, _, _)
SplitAcc(str, cur, acc) ==
    IF str = <<>> THEN Append(acc, cur)
    ELSE IF Head(str) \in Separators
         THEN SplitAcc(Tail(str), <<>>, Append(acc, cur))
         ELSE SplitAcc(Tail(str), Append(cur, Head(str)), acc)

Split(str) == SplitAcc(str, <<>>, <<>>)

RECURSIVE TrimLeft(_)
TrimLeft(t) ==
    IF t # <<>> /\ Head(t) \in Whitespace THEN TrimLeft(Tail(t)) ELSE t

RECURSIVE TrimRight(_)
TrimRight(t) ==
    IF t # <<>> /\ t[Len(t)] \in Whitespace
    THEN TrimRight(SubSeq(t, 1, Len(t) - 1)) ELSE t

\* line 491 without the call of trim
NoTrim(t) == t

\* String.prototype.trim
Trim(t) == TrimRight(TrimLeft(t))

\* /^\d+$/.test(id)
IsDigits(t) == t # <<>> /\ \A i \in 1..Len(t) : t[i] \in Digits

RECURSIVE FilterDigits(_)
FilterDigits(ts) ==
    IF ts = <<>> THEN <<>>
    ELSE IF IsDigits(Head(ts))
         THEN <<Head(ts)>> \o FilterDigits(Tail(ts))
         ELSE FilterDigits(Tail(ts))

ParseChannelIds(str) ==
    FilterDigits([i \in 1..Len(Split(str)) |-> Trim(Split(str)[i])])

----------------------------------------------------------------------------
(* Inputs of the environment *)

Ch7 == <<"7">>
Ch8 == <<"8">>

\* channelIdsStr values a request or the stored configuration may carry
ChValid1 == <<"7">>
ChValid2 == <<"7", ",", " ", "8">>
ChInvalid == <<"7", "x">>
ChRepeated == <<"7", ",", "7">>
ChEmpty == <<>>

\* every destination id a valid input can produce
AllChans == {Ch7, Ch8}

\* body of POST /api/start and POST /api/admin/start-sender
StartInputs ==
    { [token |-> "t", message |-> "m", chStr |-> ChValid1, rawDelay |-> 5],
      [token |-> "t", message |-> "m", chStr |-> ChValid2, rawDelay |-> 5],
      [token |-> "t", message |-> "m", chStr |-> ChInvalid, rawDelay |-> 5],
      [token |-> "",  message |-> "m", chStr |-> ChValid1, rawDelay |-> 5],
      [token |-> "t", message |-> "",  chStr |-> ChValid1, rawDelay |-> 5],
      [token |-> "",  message |-> "",  chStr |-> ChInvalid, rawDelay |-> 5],
      [token |-> "",  message |-> "",  chStr |-> ChValid1, rawDelay |-> 5] }

\* body of POST /api/config
ConfigInputs ==
    { [token |-> "t", message |-> "m", chStr |-> ChValid1, rawDelay |-> 5],
      [token |-> "",  message |-> "m", chStr |-> ChValid1, rawDelay |-> 5] }

\* Date.now()
Now == 1

\* one advance of Date.now() between two events of routes, in ms
TickMs == 5000

\* admin members: Date.now() - rawLiveState.lastUpdate < 15000
LiveFreshMs == 15000

\* state_update messages: delay 0 stands for a missing msg.delay
StateUpdates == [token : {"t"}, delay : {0, 20}]

\* HTTP outcomes of one POST .../messages
Responses == {"ok", "429", "401", "403", "other", "neterr"}

\* retry_after of a 429 body, in half milliseconds; 0 stands for a missing,
\* zero or unparsable value (data.retry_after || 5)
RetryAfterHalfMs == {0, 6000, 8001}

\* Math.random() as a fraction num / RandDen, 0 <= num < RandDen
RandDen == 20
RandNums == {0, 15}

\* how many emitLog calls of a step, counted from its first one inside the
\* try block of the run, have the log callback throw
Throws == 0..2

----------------------------------------------------------------------------
(* Records *)

\* getSession: a new SessionSender
NewSession ==
    [isActive |-> FALSE, totalSent |-> 0, activeThreads |-> 0,
     startTime |-> Null, shouldStop |-> FALSE]

\* no configs row for the session; id counts the rows created so far
NoConfig ==
    [exists |-> FALSE, id |-> 0, token |-> "", message |-> "", channelIds |-> <<>>,
     delay |-> 0, isActive |-> FALSE, userWantsActive |-> FALSE, totalSent |-> 0]

NoArgs == [token |-> "", message |-> "", chStr |-> <<>>, delay |-> 0, isRestore |-> FALSE]

\* phase: where the invocation of startSender, or the run it launched, waits
\*   "wait"     the 300 ms timer of the mid-shutdown wait      (line 480)
\*   "persist"  the k-th storage call after activation         (lines 508-510)
\*   "resolve"  the fetch of the k-th channel name             (line 441)
\*   "loops"    Promise.all(channelPromises)                   (line 456)
\*   "fin"      storage.updateConfigStatus(sessionId, false)   (line 531)
\*   "tokfin"   storage.setUserWantsActive(sessionId, false)   (line 534)
\*   "supSleep" the supervisor's interruptibleSleep            (line 542)
\*   "supRead"  storage.getConfig                              (line 544)
\*   "supCall"  the supervisor's await startSender(...)        (line 554)
\*   "end"      the async function has returned; channel loops of the run
\*              that Promise.all no longer waits for may still be alive
FreeRun ==
    [phase |-> "free", caller |-> 0, args |-> NoArgs, waited |-> 0, k |-> 0,
     loopResult |-> "stopped", userWantedStop |-> FALSE, retryNum |-> 0,
     ms |-> 0, loops |-> <<>>]

NoRet == [op |-> "none", caller |-> 0, val |-> ""]

NoRes == [fn |-> "none"]

\* routes 82-83: no client, no live state; no response sent yet
SockIds == 1..MaxClients

\* a websocket of the session and the connection handler that serves it
\*   pc "none":   no such socket
\*      "access": awaiting checkAccess                       (line 172)
\*      "config": awaiting storage.getConfig                 (line 183)
\*      "logs":   awaiting storage.getLogs                   (line 185)
\*      "ready":  the message and close listeners are registered
\*      "lost":   closed, and no close listener will ever run for it
\*   open:  the connection is open (readyState OPEN)
\*   inSet: the socket is a member of sessionClients.get(sessionId)
\*   sid:   the session of its cookie: 1 is the session of this model, 2
\*          another session; 0 with pc "none"
NoSock == [pc |-> "none", open |-> FALSE, inSet |-> FALSE, sid |-> 0]

Sids == {1, 2}

\* what the sockets were sent during the last step, in order
NoInbox == [k \in SockIds |-> <<>>]

WebInit ==
    [now |-> 0, sessionClients |-> 0, liveStates |-> {},
     socks |-> [k \in SockIds |-> NoSock], inbox |-> NoInbox,
     res |-> [path |-> "none", live |-> {}, isOnline |-> FALSE, at |-> 0]]

\* restoreAllSessions has returned, or has passed the row of the session
\*   pc "loop": at line 621 for the row of the session, lines 616-618 read;
\*   "gate1", "gate2", "gate3": awaiting line 627, 628, 629
BootDone == [pc |-> "done", isLocked |-> FALSE, approved |-> FALSE]

\* site_settings.isLocked, whether approved_users has the session, and the
\* handler of POST /api/admin/toggle-lock
\*   pc "idle":     no toggle request yet
\*      "read":     awaiting storage.getSiteSettings           (line 452)
\*      "set":      awaiting storage.setSiteLocked(newLocked)  (line 454)
\*      "stopAll":  awaiting stopAllSenders                    (line 457)
\*      "configs":  awaiting storage.getAllConfigs             (line 459)
\*      "approved": awaiting storage.getAllApprovedUsers       (line 460)
\*      "delete":   awaiting storage.deleteConfig              (line 465)
\*      "done":     res.json(updated)                          (line 470)
\*   newLocked: line 453; seen: the row of the session is in allConfigs
NoToggle ==
    [isLocked |-> FALSE, approved |-> FALSE, pc |-> "idle", newLocked |-> FALSE,
     seen |-> FALSE]

Log(tag, level, n, m) == [tag |-> tag, level |-> level, n |-> n, m |-> m]

RunIds == 1..MaxRuns

LiveLoop(l) == l.pc \in {"stagger", "attempt", "sleep"}

HasLiveLoop(run) == \E i \in DOMAIN run.loops : LiveLoop(run.loops[i])

\* the clamp without Math.max(10, ...)
ClampDelayNoFloor(raw) == Min(DelayMax, IF raw = 0 THEN DelayDefault ELSE raw)

\* route handlers: Math.min(250, Math.max(10, delay || 30))
ClampDelay(raw) == Min(DelayMax, Max(DelayMin, IF raw = 0 THEN DelayDefault ELSE raw))

----------------------------------------------------------------------------
(* Synchronous code segments.  A segment maps the state at its start to the *)
(* state at its end; st.ok = FALSE marks a result outside the bounds.       *)

Cur ==
    [s |-> s, db |-> db, runs |-> runs, names |-> channelNames, incs |-> incs,
     stopCall |-> stopCall, ret |-> NoRet, logs |-> <<>>,
     nSent |-> nSent, owed |-> owed, nReq |-> nReq, userStop |-> userStop,
     boot |-> boot, site |-> site, stats |-> <<>>, ok |-> TRUE]

\* the state at the start of a handler that serves a request from outside
Asked == [Cur EXCEPT !.nReq = @ + 1]

\* the state at the start of a timer callback whose timer ran for ms: every
\* cooldown still owed to a destination is ms closer to its end
Elapsed(ms) == [Cur EXCEPT !.owed = [c \in DOMAIN @ |-> Max(0, @[c] - ms)]]

\* getStatus 256-264
Status(sess) ==
    [type |-> "status", isActive |-> sess.isActive, totalSent |-> sess.totalSent,
     activeThreads |-> sess.activeThreads, startTime |-> sess.startTime]

\* emitLog(sessionId, msg, level); stats keeps what getStatus returns to the
\* log callback of this call
Emit(st, tag, level, n, m) ==
    [st EXCEPT !.logs = Append(@, Log(tag, level, n, m)),
               !.stats = Append(@, Status(st.s))]

SetRun(st, r, run) == [st EXCEPT !.runs[r] = run]

SetLoop(st, r, i, l) == [st EXCEPT !.runs[r].loops[i] = l]

\* a channel loop, from its interruptibleSleep(stagger) on
\*   pc "stagger"/"sleep": in interruptibleSleep(ms); "attempt": in fetch;
\*   "done": returned out; "dead": its promise rejected
NewLoop(chan, ms) ==
    [pc |-> "stagger", chan |-> chan, ce |-> 0, ms |-> ms, kind |-> "none",
     ra |-> 0, out |-> "none"]

DoneLoop(l, out) ==
    [l EXCEPT !.pc = "done", !.ce = 0, !.ms = 0, !.kind = "none", !.ra = 0, !.out = out]

DeadLoop(l) ==
    [l EXCEPT !.pc = "dead", !.ce = 0, !.ms = 0, !.kind = "none", !.ra = 0]

\* a settled promise that nothing reads any more
Forgotten(l) == IF LiveLoop(l) THEN l ELSE DoneLoop(l, "none")

\* the promises of a run once Promise.all has settled: only channel loops
\* that are still running matter
Leftover(ls) ==
    IF \E i \in DOMAIN ls : LiveLoop(ls[i])
    THEN [i \in DOMAIN ls |-> Forgotten(ls[i])]
    ELSE <<>>

\* the async function of a run has returned: the slot is kept only while
\* channel loops of the run are alive
EndRun(st, r) ==
    LET run == st.runs[r] IN
    IF HasLiveLoop(run)
    THEN SetRun(st, r, [FreeRun EXCEPT !.phase = "end",
                                       !.args = [NoArgs EXCEPT !.delay = run.args.delay],
                                       !.loops = Leftover(run.loops)])
    ELSE SetRun(st, r, FreeRun)

\* the smallest free slot, 0 when there is none
FreeSlot(rs) ==
    IF \E r \in RunIds : rs[r].phase = "free"
    THEN CHOOSE r \in RunIds : rs[r].phase = "free" /\
                               \A q \in RunIds : rs[q].phase = "free" => r <= q
    ELSE 0

\* the wait without the cap of Math.min: retryNum * 5
RestartWaitUncapped(retryNum) == retryNum * RestartStepSec

\* startSender 540: Math.min(retryNum * 5, 60), in seconds
RestartWaitSec(retryNum) == Min(retryNum * RestartStepSec, RestartMaxSec)

\* lines 538-543 with a sleep that does not test shouldStop when it begins
SupervisorIterateNoCheck(st, p) ==
    LET run == st.runs[p]
        n == run.retryNum + 1
        waitTime == RestartWaitSec(n)
        st1 == Emit(st, "autorestart", "warn", n, waitTime)
    IN  SetRun(st1, p, [run EXCEPT !.phase = "supSleep", !.retryNum = n,
                                   !.ms = waitTime * 1000])

\* startSender 538-543: one turn of while (true) up to the await of the sleep
SupervisorIterate(st, p) ==
    LET run == st.runs[p]
        n == run.retryNum + 1
        waitTime == RestartWaitSec(n)
        st1 == Emit(st, "autorestart", "warn", n, waitTime)
    IN  IF st1.s.shouldStop
        THEN EndRun(st1, p)      \* interruptibleSleep resolves false at once: break
        ELSE SetRun(st1, p, [run EXCEPT !.phase = "supSleep", !.retryNum = n,
                                        !.ms = waitTime * 1000])

\* lines 533-558 without the branch of 533-535
FinalBranchNoTokenCheck(loopResult, userWantedStop) ==
    IF ~userWantedStop THEN "supervisor" ELSE "shutdown"

\* startSender 533, 536: which branch the finally block takes
FinalBranch(loopResult, userWantedStop) ==
    IF loopResult = "token_invalid" THEN "token_invalid"
    ELSE IF ~userWantedStop THEN "supervisor"
    ELSE "shutdown"

\* lines 527-530 without line 530 (s.shouldStop = false)
ResetSessionKeepingStop(sess) ==
    [sess EXCEPT !.isActive = FALSE, !.activeThreads = 0, !.startTime = Null]

\* lines 527-530 without line 528 (s.activeThreads = 0)
ResetSessionKeepingThreads(sess) ==
    [sess EXCEPT !.isActive = FALSE, !.startTime = Null, !.shouldStop = FALSE]

\* startSender 527-530
ResetSession(sess) ==
    [sess EXCEPT !.isActive = FALSE, !.activeThreads = 0, !.startTime = Null,
                 !.shouldStop = FALSE]

\* startSender 526-531: the finally block up to its first await
Finalize(st, r, loopResult) ==
    [st EXCEPT !.s = ResetSession(@),
               !.runs[r] = [@ EXCEPT !.phase = "fin", !.loopResult = loopResult,
                                     !.userWantedStop = st.s.shouldStop,
                                     !.args = [NoArgs EXCEPT
                                                 !.delay = st.runs[r].args.delay],
                                     !.k = 0, !.loops = Leftover(@)]]

\* Promise.all(channelPromises): rejected by the first rejection, fulfilled
\* when every promise is
AllState(ls) ==
    IF \E i \in DOMAIN ls : ls[i].pc = "dead" THEN "rejected"
    ELSE IF \A i \in DOMAIN ls : ls[i].pc = "done"
         THEN IF \E i \in DOMAIN ls : ls[i].out = "token_invalid"
              THEN "token_invalid" ELSE "stopped"
         ELSE "pending"

\* senderLoop 456-464 and startSender 522-524: what follows once Promise.all
\* has settled, up to the first await of the finally block
SettleAll(st, r) ==
    LET run == st.runs[r]
        a == AllState(run.loops)
    IN  IF run.phase = "end" THEN EndRun(st, r)
        ELSE IF run.phase # "loops"
        THEN SetRun(st, r, [run EXCEPT !.loops = Leftover(@)])
        ELSE IF a = "pending" THEN st
        ELSE IF a = "rejected"
        THEN Finalize(Emit(st, "error", "error", 0, 0), r, "stopped")
        ELSE IF a = "token_invalid"
        THEN Finalize([st EXCEPT !.s.shouldStop = TRUE], r, "token_invalid")
        ELSE Finalize(Emit(st, "allended", "warn", 0, 0), r, "stopped")

----------------------------------------------------------------------------
(* Channel loop *)

\* sendOneMessage 360-362: Math.ceil((data.retry_after || 5) * 1000) + 1000
RateLimitCooldown(raHalfMs) ==
    CeilDiv(IF raHalfMs = 0 THEN DefaultRetryAfterS * 2000 ELSE raHalfMs, 2)
        + RateLimitMarginMs

\* what a 429 with this retry_after asks for, in whole ms (rounded down),
\* plus the margin of line 362
OwedAfter(raHalfMs) ==
    (IF raHalfMs = 0 THEN DefaultRetryAfterS * 1000 ELSE raHalfMs \div 2)
        + RateLimitMarginMs

\* the result taxonomy of the specification, by HTTP outcome
Kind(resp) ==
    CASE resp = "ok"  -> "sent"
      [] resp = "429" -> "rate"
      [] resp = "401" -> "unauth"
      [] resp = "403" -> "forbid"
      [] OTHER        -> "transient"

SendOut(rejected, sent, cooldownMs, tags) ==
    [rejected |-> rejected, sent |-> sent, cooldownMs |-> cooldownMs, tags |-> tags]

\* sendOneMessage 341-378 for one HTTP outcome; the j-th emitLog call of the
\* step throws iff j <= thr.  A throw of line 370 is caught by line 375.
SendOneMessage(resp, ra, thr) ==
    CASE resp = "ok"  -> SendOut(FALSE, TRUE, 0, <<>>)
      [] resp = "429" -> SendOut(FALSE, FALSE, RateLimitCooldown(ra), <<>>)
      [] resp = "401" -> SendOut(FALSE, FALSE, CodeUnauthorized, <<>>)
      [] resp = "403" ->
            IF thr = 0 THEN SendOut(FALSE, FALSE, CodeForbidden, <<"noperm">>)
            ELSE IF thr = 1
                 THEN SendOut(FALSE, FALSE, TransientCooldownMs, <<"noperm", "neterr">>)
                 ELSE SendOut(TRUE, FALSE, 0, <<"noperm", "neterr">>)
      [] resp = "neterr" ->
            IF thr = 0 THEN SendOut(FALSE, FALSE, TransientCooldownMs, <<"neterr">>)
            ELSE SendOut(TRUE, FALSE, 0, <<"neterr">>)
      [] OTHER -> SendOut(FALSE, FALSE, TransientCooldownMs, <<>>)

\* lines 411-415 without the test of 413-414
WaitMsNoForbidden(cooldownMs, consecutiveErrors) ==
    IF cooldownMs > 0 THEN cooldownMs
    ELSE Min(BackoffStepMs * consecutiveErrors, BackoffMaxMs)

\* channelLoop 411-415
WaitMs(cooldownMs, consecutiveErrors) ==
    IF cooldownMs > 0 THEN cooldownMs
    ELSE IF cooldownMs = CodeForbidden THEN ForbiddenWaitMs
    ELSE Min(BackoffStepMs * consecutiveErrors, BackoffMaxMs)

\* channelLoop 418
WarnsWait(waitMs) == CeilDiv(waitMs, 1000) > WarnAboveSec

\* line 406 with Math.floor for Math.ceil
JitterWaitFloor(delaySeconds, num) ==
    (delaySeconds * (9 * RandDen + 2 * num)) \div (10 * RandDen)

\* channelLoop 406 with rand 306: Math.ceil(0.9 d + u * (1.1 d - 0.9 d)), u = num / RandDen
JitterWaitSec(delaySeconds, num) ==
    CeilDiv(delaySeconds * (9 * RandDen + 2 * num), 10 * RandDen)

\* channelLoop 410; values above MaxErrors are not told apart
NextErrors(ce) == IF ce < MaxErrors THEN ce + 1 ELSE ce

\* line 402 left out: the log of line 404 carries the counter as it was
CountSentStale(total) == total

\* channelLoop 400-402: the counter after a result with sent: true
CountSent(total) == total + 1

RECURSIVE EmitAll(_, _, _)
EmitAll(st, tags, level) ==
    IF tags = <<>> THEN st
    ELSE EmitAll(Emit(st, Head(tags), level, 0, 0), Tail(tags), level)

\* channelLoop 392-393 with sendOneMessage 338-342: the head of the while
\* loop up to the await of fetch
LoopEnter(st, r, i) ==
    LET l == st.runs[r].loops[i] IN
    IF st.s.shouldStop
    THEN SetLoop(st, r, i, DoneLoop(l, "stopped"))
    ELSE SetLoop(st, r, i, [l EXCEPT !.pc = "attempt", !.ms = 0, !.kind = "none", !.ra = 0])

\* sendOneMessage 355-378 and channelLoop 394-422: from the completion of
\* fetch to the next await
LoopResult(st, r, i, resp, ra, thr, num) ==
    LET run == st.runs[r]
        l == run.loops[i]
        so == SendOneMessage(resp, ra, thr)
        throwsNext == Len(so.tags) + 1 <= thr
        st1 == EmitAll(st, so.tags, "warn")
        st2 == [st1 EXCEPT !.nSent = IF so.sent THEN @ + 1 ELSE @,
                           !.owed[l.chan] = IF resp = "429" THEN OwedAfter(ra) ELSE 0]
    IN  IF so.rejected THEN SetLoop(st2, r, i, DeadLoop(l))
        ELSE IF st.s.shouldStop THEN SetLoop(st2, r, i, DoneLoop(l, "stopped"))
        ELSE IF so.cooldownMs = CodeUnauthorized
        THEN SetLoop(st2, r, i, DoneLoop(l, "token_invalid"))
        ELSE IF so.sent
        THEN LET total == CountSent(st.s.totalSent)
                 st3 == [st2 EXCEPT !.s.totalSent = total,
                                    !.incs = @ \cup {[id |-> total, row |-> 0, seen |-> -1]}]
                 st4 == Emit(st3, "delivered", "success", total, 0)
                 waitSec == JitterWaitSec(run.args.delay, num)
             IN  IF throwsNext THEN SetLoop(st4, r, i, DeadLoop(l))
                 ELSE SetLoop(st4, r, i, [l EXCEPT !.pc = "sleep", !.ce = 0,
                                                   !.ms = waitSec * 1000,
                                                   !.kind = "sent", !.ra = 0])
        ELSE LET ce == NextErrors(l.ce)
                 waitMs == WaitMs(so.cooldownMs, ce)
                 warn == WarnsWait(waitMs)
                 st3 == IF warn
                        THEN Emit(st2, "waiting", "warn", CeilDiv(waitMs, 1000), 0)
                        ELSE st2
             IN  IF warn /\ throwsNext THEN SetLoop(st3, r, i, DeadLoop(l))
                 ELSE SetLoop(st3, r, i, [l EXCEPT !.pc = "sleep", !.ce = ce,
                                                   !.ms = waitMs, !.kind = Kind(resp),
                                                   !.ra = IF resp = "429" THEN ra ELSE 0])

----------------------------------------------------------------------------
(* fetchChannelName *)

\* new Map()
NoNames == [c \in {} |-> <<>>]

\* the name the upstream service has for a channel id
NameOf(channelId) == <<"n">> \o channelId

\* how the lookup of a name ends: a 2xx response with a name, a 2xx response
\* without one, another status, a rejected fetch, a body that is not JSON
Lookups == {"named", "unnamed", "notok", "neterr", "badjson"}

\* channelNames.set(channelId, name)
SetName(cache, channelId, name) ==
    [c \in DOMAIN cache \cup {channelId} |-> IF c = channelId THEN name ELSE cache[c]]

NameOut(rejected, label, cache) == [rejected |-> rejected, label |-> label, cache |-> cache]

\* lines 314-328 with channelNames.set also on the way out of line 328
FetchChannelNameCachingAll(cache, channelId, outcome) ==
    LET name == IF outcome = "named" THEN NameOf(channelId) ELSE channelId
    IN  NameOut(FALSE, name, SetName(cache, channelId, name))

\* fetchChannelName 314-328: from the completion of fetch to the return
FetchChannelName(cache, channelId, outcome) ==
    IF outcome \in {"named", "unnamed"}
    THEN LET name == IF outcome = "named" THEN NameOf(channelId) ELSE channelId
         IN  NameOut(FALSE, name, SetName(cache, channelId, name))
    ELSE NameOut(FALSE, channelId, cache)

----------------------------------------------------------------------------
(* senderLoop *)

\* lines 444-456 with stagger = 0 for every channel
LaunchLoopsNoStagger(st, r, thr) ==
    LET run == st.runs[r]
        chans == ParseChannelIds(run.args.chStr)
        st1 == Emit(st, "resolved", "info", Len(chans), 0)
        st2 == Emit(st1, "active", "success", Len(chans), run.args.delay)
        loops == [i \in 1..Len(chans) |->
                    IF st.s.shouldStop
                    THEN DoneLoop(NewLoop(chans[i], 0), "stopped")
                    ELSE NewLoop(chans[i], 0)]
    IN  IF thr >= 1
        THEN Finalize(Emit(st1, "error", "error", 0, 0), r, "stopped")
        ELSE SettleAll(SetRun(st2, r, [run EXCEPT !.phase = "loops", !.k = 0,
                                                  !.loops = loops]), r)

\* senderLoop 444-456: the two log lines, then one promise per channel, each
\* starting with interruptibleSleep(i * 2000), which resolves false at once
\* when shouldStop is set
LaunchLoops(st, r, thr) ==
    LET run == st.runs[r]
        chans == ParseChannelIds(run.args.chStr)
        st1 == Emit(st, "resolved", "info", Len(chans), 0)
        st2 == Emit(st1, "active", "success", Len(chans), run.args.delay)
        loops == [i \in 1..Len(chans) |->
                    IF st.s.shouldStop
                    THEN DoneLoop(NewLoop(chans[i], 0), "stopped")
                    ELSE NewLoop(chans[i], (i - 1) * StaggerMs)]
    IN  IF thr >= 1
        THEN Finalize(Emit(st1, "error", "error", 0, 0), r, "stopped")
        ELSE SettleAll(SetRun(st2, r, [run EXCEPT !.phase = "loops", !.k = 0,
                                                  !.loops = loops]), r)

\* lines 439-443 without the test of line 440
RECURSIVE ResolveFromNoCheck(_, _, _, _)
ResolveFromNoCheck(st, r, k, thr) ==
    LET run == st.runs[r]
        chans == ParseChannelIds(run.args.chStr)
    IN  IF k > Len(chans) THEN LaunchLoops(st, r, thr)
        ELSE IF chans[k] \in DOMAIN st.names THEN ResolveFromNoCheck(st, r, k + 1, thr)
        ELSE SetRun(st, r, [run EXCEPT !.phase = "resolve", !.k = k])

\* senderLoop 439-443 from the k-th channel id on, up to the next fetch
RECURSIVE ResolveFrom(_, _, _, _)
ResolveFrom(st, r, k, thr) ==
    LET run == st.runs[r]
        chans == ParseChannelIds(run.args.chStr)
    IN  IF k > Len(chans) THEN LaunchLoops(st, r, thr)
        ELSE IF st.s.shouldStop THEN Finalize(st, r, "stopped")
        ELSE IF chans[k] \in DOMAIN st.names THEN ResolveFrom(st, r, k + 1, thr)
        ELSE SetRun(st, r, [run EXCEPT !.phase = "resolve", !.k = k])

----------------------------------------------------------------------------
(* Storage (DatabaseStorage), on the row of the session *)

\* updateConfigStatus 71-76
UpdateConfigStatus(row, isActive) ==
    IF row.exists THEN [row EXCEPT !.isActive = isActive] ELSE row

\* setUserWantsActive 78-83
SetUserWantsActive(row, active) ==
    IF row.exists THEN [row EXCEPT !.userWantsActive = active] ELSE row

\* upsertConfig 47-69 with data = {token, message, channelIds, delay}
UpsertConfig(row, d) ==
    IF row.exists
    THEN [row EXCEPT !.token = d.token, !.message = d.message,
                     !.channelIds = d.chStr, !.delay = d.delay]
    ELSE [NoConfig EXCEPT !.exists = TRUE, !.id = row.id + 1, !.token = d.token,
                          !.message = d.message, !.channelIds = d.chStr,
                          !.delay = IF d.delay = 0 THEN DelayDefault ELSE d.delay]

\* deleteConfig 113-119
DeleteConfig(row) == [NoConfig EXCEPT !.id = row.id]

----------------------------------------------------------------------------
(* startSender *)

\* lines 485-502 with the checks of 494 and 497 in the other order
StartErrorTokenFirst(sess, a) ==
    IF sess.isActive THEN "Sender is already running"
    ELSE IF a.token = "" THEN "Token is required"
    ELSE IF ParseChannelIds(a.chStr) = <<>> THEN "No valid channel IDs provided"
    ELSE IF a.message = "" THEN "Message content is required"
    ELSE "ok"

\* startSender 485-502: the error of the first failing check, "ok" if none
StartError(sess, a) ==
    IF sess.isActive THEN "Sender is already running"
    ELSE IF ParseChannelIds(a.chStr) = <<>> THEN "No valid channel IDs provided"
    ELSE IF a.token = "" THEN "Token is required"
    ELSE IF a.message = "" THEN "Message content is required"
    ELSE "ok"

\* startSender 504-506
ActivateSession(sess) ==
    [sess EXCEPT !.isActive = TRUE, !.shouldStop = FALSE, !.startTime = Now]

\* the promise of startSender settles with val; caller 0 is a request
\* handler, caller p > 0 the supervisor of run p (lines 554-556)
ReturnStart(st, caller, val) ==
    LET st1 == [st EXCEPT !.ret = [op |-> "start", caller |-> caller, val |-> val]] IN
    IF caller = 0 THEN st1
    ELSE IF val \in {"ok", "rejected"} THEN EndRun(st1, caller)
    ELSE SupervisorIterate(Emit(st1, "restartfailed", "warn", 0, 0), caller)

\* startSender 485-506; r is the free slot the invocation takes if it goes
\* on (0: none is free)
Decide(st, r, caller, a) ==
    LET err == StartError(st.s, a) IN
    IF err # "ok"
    THEN ReturnStart(IF r = 0 THEN st ELSE SetRun(st, r, FreeRun), caller, err)
    ELSE IF r = 0 THEN [st EXCEPT !.ok = FALSE]
    ELSE [st EXCEPT !.s = ActivateSession(@),
                    !.runs[r] = [FreeRun EXCEPT !.phase = "persist", !.caller = caller,
                                                !.args = a, !.k = 1]]

\* lines 475-487 without the wait of 477-483
EntryNoWait(st, r, caller, a) == Decide(st, r, caller, a)

\* startSender 475-483: entry, up to the first await or the return
Entry(st, r, caller, a) ==
    IF st.s.isActive /\ st.s.shouldStop
    THEN IF r = 0 THEN [st EXCEPT !.ok = FALSE]
         ELSE SetRun(st, r, [FreeRun EXCEPT !.phase = "wait", !.caller = caller,
                                            !.args = a])
    ELSE Decide(st, r, caller, a)

\* startSender 479-483: the 300 ms timer of the wait loop fires
WaitStep(st, r) ==
    LET run == st.runs[r]
        waited == run.waited + StartWaitStepMs
    IN  IF st.s.isActive /\ waited < StartWaitMaxMs
        THEN SetRun(st, r, [run EXCEPT !.waited = waited])
        ELSE Decide(st, r, run.caller, run.args)

\* startSender 512-522 with senderLoop 435-436, then 564
StartRun(st, r, thr) ==
    LET run == st.runs[r]
        n == Len(ParseChannelIds(run.args.chStr))
        st1 == Emit(st, IF run.args.isRestore THEN "resumed" ELSE "init", "success", 0, 0)
        st2 == Emit(st1, "config", "info", n, run.args.delay)
        st3 == [st2 EXCEPT !.s.activeThreads = n]
    IN  ReturnStart(ResolveFrom(st3, r, 1, thr), run.caller, "ok")

\* startSender 531-559: the finally block after updateConfigStatus
AfterFinalStatus(st, r) ==
    LET run == st.runs[r]
        b == FinalBranch(run.loopResult, run.userWantedStop)
    IN  IF b = "token_invalid" THEN SetRun(st, r, [run EXCEPT !.phase = "tokfin"])
        ELSE IF b = "supervisor" THEN SupervisorIterate(st, r)
        ELSE EndRun(Emit(st, "shutdown", "warn", 0, 0), r)

\* lines 544-556 with the test of line 545 reduced to !config
SupervisorCheckIgnoringIntent(st, p) ==
    LET cfg == st.db
        run == st.runs[p]
    IN  IF ~cfg.exists
        THEN EndRun(Emit(st, "cancelled", "warn", 0, 0), p)
        ELSE IF cfg.token = "" \/ cfg.message = "" \/ cfg.channelIds = <<>>
        THEN SupervisorIterate(Emit(st, "incomplete", "warn", 0, 0), p)
        ELSE Entry(SetRun(Emit(st, "restarting", "success", 0, 0), p,
                          [run EXCEPT !.phase = "supCall"]),
                   FreeSlot(st.runs), p,
                   [token |-> cfg.token, message |-> cfg.message,
                    chStr |-> cfg.channelIds, delay |-> cfg.delay, isRestore |-> TRUE])

\* startSender 544-556: the supervisor after its wait, given the row read
SupervisorCheck(st, p) ==
    LET cfg == st.db
        run == st.runs[p]
    IN  IF ~cfg.exists \/ ~cfg.userWantsActive
        THEN EndRun(Emit(st, "cancelled", "warn", 0, 0), p)
        ELSE IF cfg.token = "" \/ cfg.message = "" \/ cfg.channelIds = <<>>
        THEN SupervisorIterate(Emit(st, "incomplete", "warn", 0, 0), p)
        ELSE Entry(SetRun(Emit(st, "restarting", "success", 0, 0), p,
                          [run EXCEPT !.phase = "supCall"]),
                   FreeSlot(st.runs), p,
                   [token |-> cfg.token, message |-> cfg.message,
                    chStr |-> cfg.channelIds, delay |-> cfg.delay, isRestore |-> TRUE])

\* lines 568-577 with the early return of 569-571 moved after line 575: an
\* idle session has its intent cleared too
StopSenderClearingIntent(st) ==
    IF ~st.s.isActive
    THEN [st EXCEPT !.stopCall = "stop"]
    ELSE [Emit(st, "abort", "warn", 0, 0) EXCEPT !.s.shouldStop = TRUE,
                                                 !.stopCall = "stop",
                                                 !.userStop = TRUE]

\* lines 568-574 without the early return of 569-571
StopSenderUnchecked(st) ==
    [Emit(st, "abort", "warn", 0, 0) EXCEPT !.s.shouldStop = TRUE, !.stopCall = "stop",
                                            !.userStop = TRUE]

\* stopSender 568-574
StopSenderSync(st) ==
    IF ~st.s.isActive
    THEN [st EXCEPT !.ret = [op |-> "stop", caller |-> 0, val |-> "false"]]
    ELSE [Emit(st, "abort", "warn", 0, 0) EXCEPT !.s.shouldStop = TRUE,
                                                 !.stopCall = "stop",
                                                 !.userStop = TRUE]

\* stopAllSenders 603-612 for the one session of the map
StopAllSync(st) ==
    IF ~st.s.isActive
    THEN [st EXCEPT !.ret = [op |-> "stopAll", caller |-> 0, val |-> "0"]]
    ELSE [st EXCEPT !.s.shouldStop = TRUE, !.stopCall = "stopAll"]

----------------------------------------------------------------------------
(* Initial state and steps.  A step is one callback of the event loop. *)

EngineInit ==
    /\ s = NewSession
    /\ db = NoConfig
    /\ runs = [r \in RunIds |-> FreeRun]
    /\ channelNames = NoNames
    /\ incs = {}
    /\ stopCall = "none"
    /\ ret = NoRet
    /\ logs = <<>>
    /\ nSent = 0
    /\ owed = [c \in AllChans |-> 0]
    /\ nReq = 0
    /\ userStop = FALSE
    /\ site = NoToggle

Init ==
    /\ EngineInit
    /\ boot = BootDone
    /\ fnArg = <<>>
    /\ fnRes = NoRes
    /\ web = WebInit

\* broadcastToSession 94-103 with every socket in the sets of all sessions
RecipientsAnySession(w, sid) ==
    {k \in SockIds : w.socks[k].inSet /\ w.socks[k].open}

\* broadcastToSession 94-103: the open sockets of sessionClients.get(sessionId)
Recipients(w, sid) ==
    {k \in SockIds : w.socks[k].inSet /\ w.socks[k].sid = sid /\ w.socks[k].open}

\* the log callback of routes 154-157 for the emitLog calls of a step:
\* broadcastLog, then broadcastStatus, each time
Broadcast(lgs, sts) ==
    [j \in 1..(2 * Len(lgs)) |->
        IF j % 2 = 1
        THEN [type |-> "log", tag |-> lgs[(j + 1) \div 2].tag,
              level |-> lgs[(j + 1) \div 2].level,
              n |-> lgs[(j + 1) \div 2].n, m |-> lgs[(j + 1) \div 2].m]
        ELSE sts[j \div 2]]

Commit(st) ==
    /\ st.ok
    /\ s' = st.s
    /\ db' = st.db
    /\ runs' = st.runs
    /\ channelNames' = st.names
    /\ incs' = st.incs
    /\ stopCall' = st.stopCall
    /\ ret' = st.ret
    /\ logs' = st.logs
    /\ nSent' = st.nSent
    /\ owed' = st.owed
    /\ nReq' = st.nReq
    /\ userStop' = st.userStop
    /\ boot' = st.boot
    /\ site' = st.site
    /\ web' = [web EXCEPT !.inbox =
                  [k \in SockIds |-> IF k \in Recipients(web, 1)
                                     THEN Broadcast(st.logs, st.stats) ELSE <<>>]]
    /\ UNCHANGED <<fnArg, fnRes>>

\* POST /api/start, POST /api/admin/start-sender: the call of startSender
StartRequest(a) ==
    /\ boot.pc = "done"
    /\ nReq < MaxReq
    /\ Commit(Entry([Asked EXCEPT !.userStop = FALSE], FreeSlot(runs), 0,
                    [token |-> a.token, message |-> a.message, chStr |-> a.chStr,
                     delay |-> ClampDelay(a.rawDelay), isRestore |-> FALSE]))

\* the 300 ms timer of an invocation waiting for the shutdown to finish
WaitTick(r) ==
    /\ runs[r].phase = "wait"
    /\ runs[r].caller # 0 => runs[runs[r].caller].retryNum < MaxSupRetry
    /\ Commit(WaitStep(Elapsed(StartWaitStepMs), r))

\* a storage call of startSender 508-510 completes
PersistStep(r, thr) ==
    /\ runs[r].phase = "persist"
    /\ LET run == runs[r] IN
       Commit(CASE run.k = 1 -> [Cur EXCEPT !.db = UpdateConfigStatus(@, TRUE),
                                            !.runs[r].k = 2]
                [] run.k = 2 -> [Cur EXCEPT !.db = SetUserWantsActive(@, TRUE),
                                            !.runs[r].k = 3]
                [] OTHER     -> StartRun([Cur EXCEPT !.db = UpsertConfig(@, run.args)],
                                         r, thr))

\* a storage call of startSender 508-510 rejects: startSender rejects
PersistFail(r) ==
    /\ runs[r].phase = "persist"
    /\ Commit(ReturnStart(SetRun(Cur, r, FreeRun), runs[r].caller, "rejected"))

\* fetchChannelName 315-328: the fetch of the k-th name completes
NameFetched(r, found, thr) ==
    /\ runs[r].phase = "resolve"
    /\ LET run == runs[r]
           chan == ParseChannelIds(run.args.chStr)[run.k]
           st1 == [Cur EXCEPT !.names = FetchChannelName(@, chan,
                                            IF found THEN "named" ELSE "notok").cache]
       IN  Commit(ResolveFrom(st1, r, run.k + 1, thr))

\* interruptibleSleep 287-293: the timer of a channel loop's sleep fires
SleepTimer(r, i) ==
    /\ i \in DOMAIN runs[r].loops
    /\ runs[r].loops[i].pc \in {"stagger", "sleep"}
    /\ Commit(SettleAll(LoopEnter(Elapsed(runs[r].loops[i].ms), r, i), r))

\* interruptibleSleep 294-301: the 200 ms interval finds shouldStop set
SleepPoll(r, i) ==
    /\ i \in DOMAIN runs[r].loops
    /\ runs[r].loops[i].pc \in {"stagger", "sleep"}
    /\ runs[r].loops[i].ms >= PollMs
    /\ s.shouldStop
    /\ Commit(SettleAll(SetLoop(Elapsed(PollMs), r, i,
                                DoneLoop(runs[r].loops[i], "stopped")), r))

\* the fetch of sendOneMessage completes with HTTP outcome resp
AttemptReturn(r, i, resp, ra, thr, num) ==
    /\ i \in DOMAIN runs[r].loops
    /\ runs[r].loops[i].pc = "attempt"
    /\ resp = "ok" => nSent < MaxSent
    /\ Commit(SettleAll(LoopResult(Cur, r, i, resp, ra, thr, num), r))

\* storage.updateConfigStatus(sessionId, false) of the finally block completes
FinalStatusDone(r) ==
    /\ runs[r].phase = "fin"
    /\ Commit(AfterFinalStatus([Cur EXCEPT !.db = UpdateConfigStatus(@, FALSE)], r))

\* storage.setUserWantsActive(sessionId, false) of line 534 completes
TokenInvalidDone(r) ==
    /\ runs[r].phase = "tokfin"
    /\ Commit(EndRun(Emit([Cur EXCEPT !.db = SetUserWantsActive(@, FALSE)],
                          "tokeninvalid", "error", 0, 0), r))

\* the supervisor's sleep: its timer fires, line 544 is awaited
SupTimer(r) ==
    /\ runs[r].phase = "supSleep"
    /\ Commit(SetRun(Elapsed(runs[r].ms), r, [runs[r] EXCEPT !.phase = "supRead", !.ms = 0]))

\* the supervisor's sleep: the 200 ms interval finds shouldStop set: break
SupPoll(r) ==
    /\ runs[r].phase = "supSleep"
    /\ s.shouldStop
    /\ Commit(EndRun(Elapsed(PollMs), r))

\* storage.getConfig of line 544 completes; the supervisor is followed for
\* at most maxRetry iterations
SupRead(r, maxRetry) ==
    /\ runs[r].phase = "supRead"
    /\ runs[r].retryNum < maxRetry
    /\ Commit(SupervisorCheck(Cur, r))

\* POST /api/stop and the admin routes: the call of stopSender
StopRequest ==
    /\ boot.pc = "done"
    /\ nReq < MaxReq
    /\ stopCall = "none"
    /\ Commit(StopSenderSync(Asked))

\* POST /api/admin/stop-all-senders, toggle-lock: the call of stopAllSenders
StopAllRequest ==
    /\ boot.pc = "done"
    /\ nReq < MaxReq
    /\ stopCall = "none"
    /\ Commit(StopAllSync(Asked))

\* stopSender 575-577, stopAllSenders 608-612: setUserWantsActive completes
StopPersist ==
    /\ stopCall # "none"
    /\ Commit([Cur EXCEPT !.db = SetUserWantsActive(@, FALSE),
                          !.stopCall = "none",
                          !.site.pc = IF @ = "stopAll" THEN "configs" ELSE @,
                          !.ret = [op |-> stopCall, caller |-> 0,
                                   val |-> IF stopCall = "stop" THEN "true" ELSE "1"]])

\* incrementSent 86: getConfig
IncRead(x) ==
    /\ x \in incs
    /\ x.seen = -1
    /\ Commit([Cur EXCEPT !.incs = IF db.exists
                                   THEN (@ \ {x}) \cup
                                        {[x EXCEPT !.row = db.id, !.seen = db.totalSent]}
                                   ELSE @ \ {x}])

\* incrementSent 88: update ... set totalSent = existing.totalSent + 1
IncWrite(x) ==
    /\ x \in incs
    /\ x.seen # -1
    /\ Commit([Cur EXCEPT !.incs = @ \ {x},
                          !.db = IF @.exists /\ @.id = x.row
                                 THEN [@ EXCEPT !.totalSent = x.seen + 1] ELSE @])

\* POST /api/config: upsertConfig with the posted fields
ConfigPost(c) ==
    /\ boot.pc = "done"
    /\ nReq < MaxReq
    /\ Commit([Asked EXCEPT !.db = UpsertConfig(@, [token |-> c.token,
                                      message |-> c.message, chStr |-> c.chStr,
                                      delay |-> ClampDelay(c.rawDelay)])])

\* admin routes: storage.deleteConfig
ConfigDelete ==
    /\ boot.pc = "done"
    /\ nReq < MaxReq
    /\ db.exists
    /\ db.id < MaxRows
    /\ Commit([Asked EXCEPT !.db = DeleteConfig(@)])

----------------------------------------------------------------------------
(* The session engine: runs, finalization, supervisors and requests of one *)
(* session, with delivery attempts that succeed, are refused for the token *)
(* or meet a throwing log callback.                                        *)

Next ==
    \/ \E a \in StartInputs : StartRequest(a)
    \/ \E r \in RunIds : WaitTick(r)
    \/ \E r \in RunIds, thr \in 0..1 : PersistStep(r, thr)
    \/ \E r \in RunIds : PersistFail(r)
    \/ \E r \in RunIds, thr \in 0..1 : NameFetched(r, FALSE, thr)
    \/ \E r \in RunIds, i \in 1..MaxLoops : SleepTimer(r, i)
    \/ \E r \in RunIds, i \in 1..MaxLoops : SleepPoll(r, i)
    \/ \E r \in RunIds, i \in 1..MaxLoops, resp \in {"ok", "401"}, thr \in 0..1 :
         AttemptReturn(r, i, resp, 0, thr, 0)
    \/ \E r \in RunIds : FinalStatusDone(r)
    \/ \E r \in RunIds : TokenInvalidDone(r)
    \/ \E r \in RunIds : SupTimer(r)
    \/ \E r \in RunIds : SupPoll(r)
    \/ \E r \in RunIds : SupRead(r, MaxRetry)
    \/ StopRequest
    \/ StopAllRequest
    \/ StopPersist
    \/ \E c \in ConfigInputs : ConfigPost(c)
    \/ ConfigDelete

Spec == Init /\ [][Next]_vars

----------------------------------------------------------------------------
(* The channel loop policy: every HTTP outcome of a delivery attempt, no   *)
(* exception, requests that start and stop the session.                    *)

LoopNext ==
    \/ \E a \in {x \in StartInputs : x.chStr = ChValid1 /\ StartError(NewSession, x) = "ok"} :
         StartRequest(a)
    \/ \E r \in RunIds : WaitTick(r)
    \/ \E r \in RunIds : PersistStep(r, 0)
    \/ \E r \in RunIds : NameFetched(r, FALSE, 0)
    \/ \E r \in RunIds, i \in 1..MaxLoops : SleepTimer(r, i)
    \/ \E r \in RunIds, i \in 1..MaxLoops : SleepPoll(r, i)
    \/ \E r \in RunIds, i \in 1..MaxLoops, resp \in Responses :
         \E ra \in (IF resp = "429" THEN RetryAfterHalfMs ELSE {0}),
            num \in (IF resp = "ok" THEN RandNums ELSE {0}) :
              AttemptReturn(r, i, resp, ra, 0, num)
    \/ \E r \in RunIds : FinalStatusDone(r)
    \/ \E r \in RunIds : TokenInvalidDone(r)
    \/ StopRequest
    \/ StopPersist

LoopSpec == Init /\ [][LoopNext]_vars

----------------------------------------------------------------------------
(* The restart supervisor: runs of one destination that end by a stop, by  *)
(* a refused token or by an exception, and the configuration changing      *)
(* under the supervisor.                                                    *)

SupNext ==
    \/ \E a \in {x \in StartInputs : x.chStr = ChValid1 /\ x.message # ""} :
         StartRequest(a)
    \/ \E r \in RunIds : WaitTick(r)
    \/ \E r \in RunIds, thr \in 0..1 : PersistStep(r, thr)
    \/ \E r \in RunIds, thr \in 0..1 : NameFetched(r, FALSE, thr)
    \/ \E r \in RunIds, i \in 1..MaxLoops : SleepTimer(r, i)
    \/ \E r \in RunIds, i \in 1..MaxLoops : SleepPoll(r, i)
    \/ \E r \in RunIds, i \in 1..MaxLoops, resp \in {"ok", "401"}, thr \in 0..1 :
         AttemptReturn(r, i, resp, 0, thr, 0)
    \/ \E r \in RunIds : FinalStatusDone(r)
    \/ \E r \in RunIds : TokenInvalidDone(r)
    \/ \E r \in RunIds : SupTimer(r)
    \/ \E r \in RunIds : SupPoll(r)
    \/ \E r \in RunIds : SupRead(r, MaxSupRetry)
    \/ StopRequest
    \/ StopPersist
    \/ \E c \in ConfigInputs : ConfigPost(c)
    \/ ConfigDelete

SupSpec == Init /\ [][SupNext]_vars

----------------------------------------------------------------------------
(* Destination lists: runs over a list of two ids, different or the same    *)
(* id twice, with attempts that succeed or fail, and stops.                 *)

ListInputs ==
    { [token |-> "t", message |-> "m", chStr |-> ch, rawDelay |-> 5] :
        ch \in {ChValid2, ChRepeated} }

ListNext ==
    \/ \E a \in ListInputs : StartRequest(a)
    \/ \E r \in RunIds : WaitTick(r)
    \/ \E r \in RunIds : PersistStep(r, 0)
    \/ \E r \in RunIds, found \in BOOLEAN : NameFetched(r, found, 0)
    \/ \E r \in RunIds, i \in 1..MaxLoops : SleepTimer(r, i)
    \/ \E r \in RunIds, i \in 1..MaxLoops : SleepPoll(r, i)
    \/ \E r \in RunIds, i \in 1..MaxLoops, resp \in {"ok", "other"} :
         AttemptReturn(r, i, resp, 0, 0, 0)
    \/ \E r \in RunIds : FinalStatusDone(r)
    \/ StopRequest
    \/ StopPersist

ListSpec == Init /\ [][ListNext]_vars

----------------------------------------------------------------------------
(* Boot: restoreAllSessions (routes 159) finds the row of the session as a  *)
(* previous process left it; afterwards runs that deliver or end by an      *)
(* exception, their supervisors, and start and configuration requests with  *)
(* delays over the whole range of a request body.                           *)

\* delay of a request body; 0 stands for a missing or zero value
RawDelays == {0, 5, 9999}

\* rows a previous process can have left: stopped, or killed while running
BootRows ==
    {NoConfig} \cup
    { [exists |-> TRUE, id |-> 1, token |-> tk, message |-> "m", channelIds |-> ch,
       delay |-> d, isActive |-> w, userWantsActive |-> w, totalSent |-> 1] :
         tk \in {"t", ""}, ch \in {ChValid1, ChInvalid}, d \in {DelayMin, DelayMax},
         w \in BOOLEAN }

BootInit ==
    /\ s = NewSession
    /\ db \in BootRows
    /\ runs = [r \in RunIds |-> FreeRun]
    /\ channelNames = NoNames
    /\ incs = {}
    /\ stopCall = "none"
    /\ ret = NoRet
    /\ logs = <<>>
    /\ nSent = 0
    /\ owed = [c \in AllChans |-> 0]
    /\ nReq = 0
    /\ userStop = FALSE
    /\ boot \in [pc : {"loop"}, isLocked : BOOLEAN, approved : BOOLEAN]
    /\ site = [NoToggle EXCEPT !.isLocked = boot.isLocked, !.approved = boot.approved]
    /\ fnArg = <<>>
    /\ fnRes = NoRes
    /\ web = WebInit

\* restoreAllSessions 617, 622: the row is among the active configs and complete
Restorable(row) ==
    /\ row.exists
    /\ row.userWantsActive
    /\ row.token # ""
    /\ row.message # ""
    /\ row.channelIds # <<>>

\* line 626 without the test of the approved sessions
GateFailsWhenLocked(b) == b.isLocked

\* restoreAllSessions 626: the session fails the gate
GateFails(b) == b.isLocked /\ ~b.approved

\* restoreAllSessions 621-636 for the row of the session, up to the first await
RestoreSession ==
    /\ boot.pc = "loop"
    /\ Commit(IF ~Restorable(db)
              THEN [Cur EXCEPT !.boot.pc = "done"]
              ELSE IF GateFails(boot)
              THEN [Cur EXCEPT !.boot.pc = "gate1"]
              ELSE Entry(Emit([Cur EXCEPT !.s.totalSent = db.totalSent,
                                          !.boot.pc = "done"],
                              "resuming", "success", 0, 0),
                         FreeSlot(runs), 0,
                         [token |-> db.token, message |-> db.message,
                          chStr |-> db.channelIds, delay |-> db.delay,
                          isRestore |-> TRUE]))

\* restoreAllSessions 627-629: a storage call of the gate branch completes
GateStep ==
    /\ boot.pc \in {"gate1", "gate2", "gate3"}
    /\ Commit(CASE boot.pc = "gate1" ->
                     [Cur EXCEPT !.db = SetUserWantsActive(@, FALSE), !.boot.pc = "gate2"]
                [] boot.pc = "gate2" ->
                     [Cur EXCEPT !.db = UpdateConfigStatus(@, FALSE), !.boot.pc = "gate3"]
                [] OTHER ->
                     [Cur EXCEPT !.db = DeleteConfig(@), !.boot.pc = "done"])

BootNext ==
    \/ RestoreSession
    \/ GateStep
    \/ \E a \in {x \in StartInputs : StartError(NewSession, x) = "ok" /\ x.chStr = ChValid1},
          d \in RawDelays : StartRequest([a EXCEPT !.rawDelay = d])
    \/ \E r \in RunIds : PersistStep(r, 0)
    \/ \E r \in RunIds, thr \in 0..1 : NameFetched(r, FALSE, thr)
    \/ \E r \in RunIds, i \in 1..MaxLoops : SleepTimer(r, i)
    \/ \E r \in RunIds, i \in 1..MaxLoops : AttemptReturn(r, i, "ok", 0, 0, 0)
    \/ \E r \in RunIds : FinalStatusDone(r)
    \/ \E r \in RunIds : SupTimer(r)
    \/ \E r \in RunIds : SupRead(r, MaxRetry)
    \/ \E c \in {x \in ConfigInputs : x.token # ""}, d \in RawDelays :
         ConfigPost([c EXCEPT !.rawDelay = d])

BootSpec == BootInit /\ [][BootNext]_vars

----------------------------------------------------------------------------
(* Destination parsing on its own: startSender 489-496 applied to every     *)
(* channelIdsStr of up to MaxParseLen characters and to one longer example. *)

ParseAlphabet == {"1", "2", ",", "\n", " ", "a"}

\* "123, 456\n789abc"
ParseExample ==
    <<"1", "2", "3", ",", " ", "4", "5", "6", "\n", "7", "8", "9", "a", "b", "c">>

ParseInputs ==
    UNION {[1..k -> ParseAlphabet] : k \in 0..MaxParseLen} \cup {ParseExample}

ParseInit ==
    /\ EngineInit
    /\ boot = BootDone
    /\ fnArg \in ParseInputs
    /\ fnRes = NoRes
    /\ web = WebInit

\* startSender 489-502 on an idle session, token and message given
ParseStep ==
    /\ fnRes = NoRes
    /\ fnRes' = [fn |-> "parse",
                 ids |-> ParseChannelIds(fnArg),
                 start |-> StartError(NewSession,
                                      [token |-> "t", message |-> "m", chStr |-> fnArg])]
    /\ UNCHANGED <<s, db, runs, channelNames, incs, stopCall, ret, logs, nSent, owed,
                   nReq, userStop, boot, site, fnArg, web>>

ParseNext == ParseStep

ParseSpec == ParseInit /\ [][ParseNext]_vars

-----------------------------------------------------------------------------
(* The live state of a session: routes.ts, the websocket handlers at 161-217
   and the two admin reads.  The session has access and the reader is the
   admin. *)

\* a step of routes that leaves the sender engine alone
WebStep(w) ==
    /\ web' = [w EXCEPT !.inbox = NoInbox]
    /\ UNCHANGED <<s, db, runs, channelNames, incs, stopCall, ret, logs, nSent, owed,
                   nReq, userStop, boot, site, fnArg, fnRes>>

\* Date.now() moves on between two events
Tick ==
    /\ web.now < MaxTicks * TickMs
    /\ WebStep([web EXCEPT !.now = @ + TickMs])

\* wss.on("connection") 163-172: a socket of the session connects, the
\* handler awaits checkAccess
WsConnect(k, sid) ==
    /\ web.socks[k].pc = "none"
    /\ WebStep([web EXCEPT !.socks[k] = [pc |-> "access", open |-> TRUE,
                                         inSet |-> FALSE, sid |-> sid]])

\* the handler once its awaits are over: lines 194-216 register the
\* listeners; a socket that has closed by then emits no further event
Registered(sock) == [sock EXCEPT !.pc = IF sock.open THEN "ready" ELSE "lost"]

\* lines 172-183: checkAccess has answered; sendThrows tells whether
\* ws.send on a socket that is no longer open throws
AccessChecked(k, hasAccess, sendThrows) ==
    /\ web.socks[k].pc = "access"
    /\ LET sock == web.socks[k] IN
       WebStep(IF ~hasAccess
               THEN [web EXCEPT !.socks[k] = NoSock]
               ELSE [web EXCEPT !.sessionClients = IF sock.sid = 1 THEN @ + 1 ELSE @,
                                !.socks[k] =
                                    IF ~sock.open /\ sendThrows
                                    THEN [sock EXCEPT !.pc = "lost", !.inSet = TRUE]
                                    ELSE [sock EXCEPT !.pc = "config", !.inSet = TRUE]])

\* lines 183-191: getConfig, then getLogs when there is a row, complete
HistoryLoaded(k) ==
    /\ web.socks[k].pc \in {"config", "logs"}
    /\ WebStep([web EXCEPT !.socks[k] =
                  IF @.pc = "config" /\ db.exists
                  THEN [@ EXCEPT !.pc = "logs"]
                  ELSE Registered(@)])

\* ws.on("message") 194-208: a state_update of an open socket of the session
WsStateUpdate(k, msg) ==
    /\ web.socks[k].pc = "ready"
    /\ web.socks[k].sid = 1
    /\ web.socks[k].open
    /\ WebStep([web EXCEPT !.liveStates =
                  { [token |-> msg.token,
                     delay |-> IF msg.delay = 0 THEN DelayDefault ELSE msg.delay,
                     lastUpdate |-> web.now] }])

\* the connection of socket k closes; ws.on("close") 210-216 runs if it is
\* registered
WsClose(k) ==
    /\ web.socks[k].open
    /\ WebStep(IF web.socks[k].pc = "ready" /\ web.socks[k].sid = 1
               THEN [web EXCEPT !.socks[k] = NoSock,
                                !.sessionClients = @ - 1,
                                !.liveStates = IF web.sessionClients = 1 THEN {} ELSE @]
               ELSE IF web.socks[k].pc = "ready"
               THEN [web EXCEPT !.socks[k] = NoSock]
               ELSE [web EXCEPT !.socks[k].open = FALSE])

\* GET /api/admin/members 489-491: the liveState of the member of the row
AdminMembers ==
    /\ db.exists
    /\ WebStep([web EXCEPT !.res =
                  [path |-> "members",
                   live |-> { l \in web.liveStates :
                                web.now - l.lastUpdate < LiveFreshMs },
                   isOnline |-> web.sessionClients > 0,
                   at |-> web.now]])

\* GET /api/admin/live-state/:sessionId 671-677
AdminLiveState ==
    WebStep([web EXCEPT !.res =
               [path |-> "live-state",
                live |-> web.liveStates,
                isOnline |-> web.sessionClients > 0,
                at |-> web.now]])

LiveNext ==
    \/ Tick
    \/ \E k \in SockIds : WsConnect(k, 1)
    \/ \E k \in SockIds, hasAccess \in BOOLEAN, sendThrows \in BOOLEAN :
         AccessChecked(k, hasAccess, sendThrows)
    \/ \E k \in SockIds : HistoryLoaded(k)
    \/ \E k \in SockIds, msg \in StateUpdates : WsStateUpdate(k, msg)
    \/ \E k \in SockIds : WsClose(k)
    \/ AdminMembers
    \/ AdminLiveState
    \/ \E c \in {c \in ConfigInputs : c.token # ""} : ConfigPost(c)

LiveSpec == Init /\ [][LiveNext]_vars

----------------------------------------------------------------------------
(* Broadcast: sockets of the session and of another session connect and    *)
(* close while a run of the session starts, delivers, is stopped and ends; *)
(* the log callback does not throw.                                        *)

CastNext ==
    \/ \E k \in SockIds, sid \in Sids : WsConnect(k, sid)
    \/ \E k \in SockIds, hasAccess \in BOOLEAN : AccessChecked(k, hasAccess, FALSE)
    \/ \E k \in SockIds : HistoryLoaded(k)
    \/ \E k \in SockIds : WsClose(k)
    \/ StartRequest([token |-> "t", message |-> "m", chStr |-> ChValid1, rawDelay |-> 5])
    \/ \E r \in RunIds : PersistStep(r, 0)
    \/ \E r \in RunIds : NameFetched(r, FALSE, 0)
    \/ \E r \in RunIds, i \in 1..MaxLoops : SleepTimer(r, i)
    \/ \E r \in RunIds, i \in 1..MaxLoops : AttemptReturn(r, i, "ok", 0, 0, 0)
    \/ \E r \in RunIds : FinalStatusDone(r)
    \/ StopRequest
    \/ StopPersist

CastSpec == Init /\ [][CastNext]_vars

----------------------------------------------------------------------------
(* Stops: runs of one destination that are stopped by the user or end by   *)
(* an exception, and their supervisors; no start request arrives while a   *)
(* shutdown is in progress.                                                *)

StopNext ==
    \/ \E a \in {x \in StartInputs : /\ x.chStr = ChValid1
                                      /\ StartError(NewSession, x) = "ok"
                                      /\ ~(s.isActive /\ s.shouldStop)} :
         StartRequest(a)
    \/ \E r \in RunIds : PersistStep(r, 0)
    \/ \E r \in RunIds, thr \in 0..1 : NameFetched(r, FALSE, thr)
    \/ \E r \in RunIds, i \in 1..MaxLoops : SleepTimer(r, i)
    \/ \E r \in RunIds, i \in 1..MaxLoops : SleepPoll(r, i)
    \/ \E r \in RunIds, i \in 1..MaxLoops, thr \in 0..1 : AttemptReturn(r, i, "ok", 0, thr, 0)
    \/ \E r \in RunIds : FinalStatusDone(r)
    \/ \E r \in RunIds : SupTimer(r)
    \/ \E r \in RunIds : SupPoll(r)
    \/ \E r \in RunIds : SupRead(r, MaxRetry)
    \/ StopRequest
    \/ StopPersist

StopSpec == Init /\ [][StopNext]_vars

----------------------------------------------------------------------------
(* The persisted counter: a run over two destinations delivers, and the    *)
(* incrementSent calls of its channel loops reach the storage.             *)

CountNext ==
    \/ StartRequest([token |-> "t", message |-> "m", chStr |-> ChValid2, rawDelay |-> 5])
    \/ \E r \in RunIds : PersistStep(r, 0)
    \/ \E r \in RunIds : NameFetched(r, FALSE, 0)
    \/ \E r \in RunIds, i \in 1..MaxLoops : SleepTimer(r, i)
    \/ \E r \in RunIds, i \in 1..MaxLoops : SleepPoll(r, i)
    \/ \E r \in RunIds, i \in 1..MaxLoops : AttemptReturn(r, i, "ok", 0, 0, 0)
    \/ \E x \in incs : IncRead(x)
    \/ \E x \in incs : IncWrite(x)
    \/ \E r \in RunIds : FinalStatusDone(r)
    \/ StopRequest
    \/ StopPersist

CountSpec == Init /\ [][CountNext]_vars

----------------------------------------------------------------------------
(* The inter-send wait: a run of one destination with every delay that the  *)
(* routes let through, deliveries that succeed, and Math.random() over the  *)
(* whole of [0, 1) in steps of 1 / RandDen.                                 *)

JitterNext ==
    \/ \E d \in DelayMin..DelayMax :
         StartRequest([token |-> "t", message |-> "m", chStr |-> ChValid1, rawDelay |-> d])
    \/ \E r \in RunIds : PersistStep(r, 0)
    \/ \E r \in RunIds : NameFetched(r, FALSE, 0)
    \/ \E r \in RunIds, i \in 1..MaxLoops : SleepTimer(r, i)
    \/ \E r \in RunIds, i \in 1..MaxLoops, num \in 0..(RandDen - 1) :
         AttemptReturn(r, i, "ok", 0, 0, num)

JitterSpec == Init /\ [][JitterNext]_vars

----------------------------------------------------------------------------
(* The name cache on its own: calls of fetchChannelName for two channel ids, *)
(* up to MaxLookups of them awaiting their fetch, every way a lookup ends.   *)
(* fnArg holds the ids of the calls in flight, fnRes what the last call to   *)
(* settle gave its caller.                                                   *)

NameInit ==
    /\ EngineInit
    /\ boot = BootDone
    /\ fnArg = <<>>
    /\ fnRes = NoRes
    /\ web = WebInit

\* fetchChannelName 312-315: the call, up to the return of the cached name
\* or to the await of fetch
NameCall(channelId) ==
    /\ IF channelId \in DOMAIN channelNames
       THEN /\ fnRes' = [fn |-> "name", id |-> channelId, rejected |-> FALSE,
                         label |-> channelNames[channelId], fetched |-> FALSE]
            /\ fnArg' = fnArg
       ELSE /\ Len(fnArg) < MaxLookups
            /\ fnArg' = Append(fnArg, channelId)
            /\ fnRes' = NoRes
    /\ UNCHANGED <<s, db, runs, channelNames, incs, stopCall, ret, logs, nSent, owed,
                   nReq, userStop, boot, site, web>>

\* fetchChannelName 315-328: the fetch of the j-th call in flight settles
NameReturn(j, outcome) ==
    /\ j \in DOMAIN fnArg
    /\ LET out == FetchChannelName(channelNames, fnArg[j], outcome) IN
       /\ channelNames' = out.cache
       /\ fnRes' = [fn |-> "name", id |-> fnArg[j], rejected |-> out.rejected,
                    label |-> out.label, fetched |-> TRUE]
    /\ fnArg' = [i \in 1..(Len(fnArg) - 1) |-> IF i < j THEN fnArg[i] ELSE fnArg[i + 1]]
    /\ UNCHANGED <<s, db, runs, incs, stopCall, ret, logs, nSent, owed,
                   nReq, userStop, boot, site, web>>

NameNext ==
    \/ \E c \in AllChans : NameCall(c)
    \/ \E j \in 1..MaxLookups, o \in Lookups : NameReturn(j, o)

NameSpec == NameInit /\ [][NameNext]_vars

----------------------------------------------------------------------------
(* The site lock: the owner locks the site while the session, which is not  *)
(* approved, starts and stops its sender through the routes.                *)

\* checkAccess 141-146, both reads taken when the first completes
CheckAccess(st) == ~st.site.isLocked \/ st.site.approved

\* POST /api/start 324-336: checkAccess has passed, startSender is called
StartRoute(a) ==
    /\ CheckAccess(Cur)
    /\ StartRequest(a)

\* POST /api/admin/toggle-lock 449-452: the request, up to getSiteSettings
ToggleLock ==
    /\ boot.pc = "done"
    /\ site.pc = "idle"
    /\ Commit([Cur EXCEPT !.site.pc = "read"])

\* lines 452-454: getSiteSettings completes, setSiteLocked is awaited
ToggleRead ==
    /\ site.pc = "read"
    /\ Commit([Cur EXCEPT !.site.pc = "set", !.site.newLocked = ~site.isLocked])

\* lines 454-459: setSiteLocked completes; when the site is now locked,
\* stopAllSenders runs up to its first await, or to the end when the session
\* is idle
ToggleSet ==
    /\ site.pc = "set"
    /\ stopCall = "none"
    /\ LET st1 == [Cur EXCEPT !.site.isLocked = site.newLocked] IN
       Commit(IF ~site.newLocked THEN [st1 EXCEPT !.site.pc = "done"]
              ELSE IF st1.s.isActive
              THEN [StopAllSync(st1) EXCEPT !.site.pc = "stopAll"]
              ELSE [st1 EXCEPT !.site.pc = "configs"])

\* lines 459-460: getAllConfigs completes
ToggleConfigs ==
    /\ site.pc = "configs"
    /\ Commit([Cur EXCEPT !.site.pc = "approved", !.site.seen = db.exists])

\* lines 460-465: getAllApprovedUsers completes; the loop over allConfigs
\* reaches the row of the session
ToggleApproved ==
    /\ site.pc = "approved"
    /\ Commit([Cur EXCEPT !.site.pc = IF site.seen /\ ~site.approved
                                      THEN "delete" ELSE "done"])

\* lines 465-470: deleteConfig completes
ToggleDelete ==
    /\ site.pc = "delete"
    /\ Commit([Cur EXCEPT !.db = DeleteConfig(@), !.site.pc = "done"])

LockNext ==
    \/ \E a \in {x \in StartInputs : x.chStr = ChValid1 /\ StartError(NewSession, x) = "ok"} :
         StartRoute(a)
    \/ \E r \in RunIds : WaitTick(r)
    \/ \E r \in RunIds : PersistStep(r, 0)
    \/ \E r \in RunIds : NameFetched(r, FALSE, 0)
    \/ \E r \in RunIds, i \in 1..MaxLoops : SleepTimer(r, i)
    \/ \E r \in RunIds, i \in 1..MaxLoops : SleepPoll(r, i)
    \/ \E r \in RunIds, i \in 1..MaxLoops : AttemptReturn(r, i, "ok", 0, 0, 0)
    \/ \E r \in RunIds : FinalStatusDone(r)
    \/ StopRequest
    \/ StopPersist
    \/ ToggleLock
    \/ ToggleRead
    \/ ToggleSet
    \/ ToggleConfigs
    \/ ToggleApproved
    \/ ToggleDelete

LockSpec == Init /\ [][LockNext]_vars

----------------------------------------------------------------------------
(* Claims *)

Loops(r) == runs[r].loops

HasLog(ls, tag) == \E j \in DOMAIN ls : ls[j].tag = tag

\* C1: whenever the session is not active, its activeThreads is 0 and its
\* startTime is null, in every reachable state.
C1_IdleIsReset == ~s.isActive => (s.activeThreads = 0 /\ s.startTime = Null)

\* a run that delivered has been finalized and the session is idle
C1_Witness ==
    /\ ~s.isActive
    /\ s.totalSent > 0
    /\ \E r \in RunIds : runs[r].phase = "fin"

\* C2: at most one run, that is one set of channel loops, is active for the
\* session at any time.
C2_OneSetOfLoops == Cardinality({r \in RunIds : HasLiveLoop(runs[r])}) <= 1

\* C3 (as a statement a finite run decides): a session that is active with
\* the cancellation flag set has a run in progress that will finalize it,
\* so that it reaches idle.
C3_StopReachesIdle ==
    (s.isActive /\ s.shouldStop)
        => \E r \in RunIds : runs[r].phase \in {"persist", "resolve", "loops"}

\* C4: stopSender on an idle session returns success: false and changes
\* neither the session object nor the persisted row nor any run.
C4_StopOnIdle ==
    [][(StopRequest /\ ~s.isActive)
         => /\ ret' = [op |-> "stop", caller |-> 0, val |-> "false"]
            /\ s' = s
            /\ db' = db
            /\ runs' = runs
            /\ stopCall' = stopCall]_vars

\* stop was refused on an idle session that has delivered before
C4_Witness ==
    /\ ret = [op |-> "stop", caller |-> 0, val |-> "false"]
    /\ ~s.isActive
    /\ s.totalSent > 0

\* the order of the checks as the claim gives it
C5_FirstFailure(sess, a) ==
    IF sess.isActive THEN "Sender is already running"
    ELSE IF ParseChannelIds(a.chStr) = <<>> THEN "No valid channel IDs provided"
    ELSE IF a.token = "" THEN "Token is required"
    ELSE IF a.message = "" THEN "Message content is required"
    ELSE "ok"

\* C5: a start that fails a check returns the error of the first failing
\* check in the order already running, no valid destination, missing
\* credential, missing message, and changes neither the session object nor
\* the persisted row, and starts no run; this holds for a call that decides
\* at once and for one that decides after the mid-shutdown wait.
C5_ValidationOrder ==
    [][/\ \A a \in StartInputs :
            (/\ StartRequest(a)
             /\ ~(s.isActive /\ s.shouldStop)
             /\ C5_FirstFailure(s, a) # "ok")
            => /\ ret' = [op |-> "start", caller |-> 0, val |-> C5_FirstFailure(s, a)]
               /\ s' = s
               /\ db' = db
               /\ runs' = runs
       /\ \A r \in RunIds :
            (/\ runs[r].phase = "wait"
             /\ runs[r].caller = 0
             /\ WaitTick(r)
             /\ ret'.op = "start")
            => /\ ret'.val = C5_FirstFailure(s, runs[r].args)
               /\ ret'.val # "ok"
               /\ s' = s
               /\ db' = db
               /\ runs' = [runs EXCEPT ![r] = FreeRun]]_vars

\* a request with no valid destination, refused on an idle session
C5_Witness ==
    /\ ret = [op |-> "start", caller |-> 0, val |-> "No valid channel IDs provided"]
    /\ ~s.isActive
    /\ \A r \in RunIds : runs[r].phase = "free"

\* C6 (as a statement a finite run decides): once a channel loop of a run
\* has ended with token_invalid, no other loop of that run begins another
\* delivery attempt.
C6_UnauthorizedWindsDown ==
    [][\A r \in RunIds : \A j \in DOMAIN Loops(r) :
         (/\ runs[r].phase = "loops"
          /\ \E i \in DOMAIN Loops(r) : Loops(r)[i].out = "token_invalid"
          /\ Loops(r)[j].pc \in {"stagger", "sleep"}
          /\ j \in DOMAIN runs'[r].loops)
         => runs'[r].loops[j].pc # "attempt"]_vars

\* C7: the in-memory totalSent equals the number of delivery attempts that
\* have returned sent.
C7_TotalCountsEverySent == s.totalSent = nSent

\* C8: a channel loop that waits after a transient error waits
\* min(10 s x consecutive errors, 120 s).
C8_TransientBackoff ==
    \A r \in RunIds : \A i \in DOMAIN Loops(r) :
        (Loops(r)[i].pc = "sleep" /\ Loops(r)[i].kind = "transient")
            => Loops(r)[i].ms = Min(10000 * Loops(r)[i].ce, 120000)

\* C9: no delivery attempt on a destination is in flight while a cooldown
\* of retry_after + 1000 ms asked for by a 429 on that destination has not
\* been waited out.
C9_CooldownRespected ==
    \A r \in RunIds : \A i \in DOMAIN Loops(r) :
        Loops(r)[i].pc = "attempt" => owed[Loops(r)[i].chan] = 0

\* 5 s, 10 s, 15 s, ... capped at 60 s
C10_WaitSec(n) == IF 5 * n <= 60 THEN 5 * n ELSE 60

C10_Restore(row) ==
    [token |-> row.token, message |-> row.message, chStr |-> row.channelIds,
     delay |-> row.delay, isRestore |-> TRUE]

C11_ActiveHasRun ==
    s.isActive => \E r \in RunIds : runs[r].phase \in {"persist", "resolve", "loops"}

StopReturnedTrue == [op |-> "stop", caller |-> 0, val |-> "true"]

\* C12: in the state in which stopSender has just returned success: true the
\* persisted intent is false, and a step that is not a start request leaves
\* it false.
C12_StopIntentKept ==
    [][(ret = StopReturnedTrue /\ db.exists)
         => /\ ~db.userWantsActive
            /\ (~(\E a \in StartInputs : StartRequest(a)) /\ db'.exists)
                 => ~db'.userWantsActive]_vars

C14_Absent == ~db.exists \/ ~db.userWantsActive

C14_Incomplete == db.token = "" \/ db.message = "" \/ db.channelIds = <<>>

\* the supervisor of run r calls startSender in this step
C14_Calls(r) ==
    \/ \E q \in RunIds : runs'[q].caller = r /\ runs[q].caller # r
    \/ (ret'.op = "start" /\ ret'.caller = r /\ runs[r].phase = "supRead")

\* the supervisor of run r goes round its loop: next iteration, or the
\* sleep of the next iteration resolves false at once
C14_Retries(r) ==
    \/ runs'[r].phase = "supSleep" /\ runs'[r].retryNum = runs[r].retryNum + 1
    \/ s.shouldStop /\ runs'[r].phase \in {"free", "end"}

C16_Cuts(str) == {0, Len(str) + 1} \cup {i \in 1..Len(str) : str[i] \in {",", "\n"}}

\* the piece of str that begins after the cut a
C16_Piece(str, a) ==
    LET b == CHOOSE c \in C16_Cuts(str) :
                 c > a /\ \A d \in C16_Cuts(str) : d > a => c <= d
    IN  SubSeq(str, a + 1, b - 1)

\* blanks, one or more digits, blanks
C16_IsId(p) ==
    \E i, j \in 1..Len(p) :
        /\ i <= j
        /\ \A k \in 1..Len(p) :
             IF i <= k /\ k <= j THEN p[k] \in {"0", "1", "2", "3", "4", "5", "6", "7", "8", "9"}
             ELSE p[k] \in {" ", "\t", "\r"}

C16_IsDigit(c) == c \in {"0", "1", "2", "3", "4", "5", "6", "7", "8", "9"}

\* the cuts that begin a kept piece
C16_Kept(str) ==
    {a \in C16_Cuts(str) : a <= Len(str) /\ C16_IsId(C16_Piece(str, a))}

\* the kept pieces without their blanks, in input order
C16_Expected(str) ==
    [n \in 1..Cardinality(C16_Kept(str)) |->
        LET a == CHOOSE c \in C16_Kept(str) :
                     Cardinality({d \in C16_Kept(str) : d < c}) = n - 1
        IN  SelectSeq(C16_Piece(str, a), C16_IsDigit)]

\* C16: the destinations parsed from an input are the pieces between commas
\* and newlines that are all digits once trimmed, in input order; the input
\* "123, 456\n789abc" gives "123", "456"; an input without such a piece makes
\* start fail with the no-valid-destinations error, any other passes the check.
C16_ParseResult ==
    fnRes # NoRes
        => /\ fnRes.ids = C16_Expected(fnArg)
           /\ fnArg = ParseExample
                => fnRes.ids = << <<"1", "2", "3">>, <<"4", "5", "6">> >>
           /\ fnRes.start = IF C16_Kept(fnArg) = {}
                            THEN "No valid channel IDs provided" ELSE "ok"

\* the example input has been parsed
C16_Witness ==
    /\ fnArg = ParseExample
    /\ fnRes # NoRes
    /\ Len(fnRes.ids) = 2

C17_InRange(d) == 10 <= d /\ d <= 250

\* the run or waiting call that a start request of this step created
C17_Created(d) ==
    \A r \in RunIds :
        (runs[r].phase = "free" /\ runs'[r].phase # "free") => runs'[r].args.delay = d

C18_InFlight(c) ==
    {x \in RunIds \X (1..MaxLoops) :
        /\ x[2] \in DOMAIN Loops(x[1])
        /\ Loops(x[1])[x[2]].pc = "attempt"
        /\ Loops(x[1])[x[2]].chan = c}

\* C18: at any time at most one delivery attempt is in flight on a
\* destination of the session.
C18_OneAttemptPerDestination ==
    \A c \in AllChans : Cardinality(C18_InFlight(c)) <= 1

\* intent true, credential, payload and destinations not empty
C19_Complete(row) ==
    /\ row.exists /\ row.userWantsActive
    /\ row.token # "" /\ row.message # "" /\ row.channelIds # <<>>

\* the site is not locked, or the session is approved
C19_Passes(b) == ~b.isLocked \/ b.approved

\* startSender was called in this step with the fields of the row and
\* isRestore = true: it is in progress, or has returned an error at once
C19_StartCalled ==
    \/ \E r \in RunIds :
         /\ runs[r].phase = "free"
         /\ runs'[r].phase = "persist"
         /\ runs'[r].args = [token |-> db.token, message |-> db.message,
                             chStr |-> db.channelIds, delay |-> db.delay,
                             isRestore |-> TRUE]
    \/ /\ ret'.op = "start" /\ ret'.val # "ok"
       /\ runs' = runs

C20_NoStaleSnapshot ==
    \A l \in web.res.live : web.res.at - l.lastUpdate < LiveFreshMs

\* the same for the members listing alone
C20_MembersFresh ==
    web.res.path = "members" => C20_NoStaleSnapshot

\* C21: when no socket of the session is connected, the observer set of the
\* session is empty and no live state is kept for it, whatever the
\* interleaving of connection setup, state updates and closes; so a session
\* without a connected observer is not reported online and has no snapshot.
C21_NoObserverNoState ==
    (\A k \in SockIds : ~web.socks[k].open)
        => /\ web.sessionClients = 0
           /\ web.liveStates = {}
           /\ web.res.at = web.now => (~web.res.isOnline /\ web.res.live = {})

\* socket k is attached to the session of the model and its connection is
\* open: its handler has passed the access check
C22_Attached(k) ==
    /\ web.socks[k].sid = 1
    /\ web.socks[k].pc \in {"config", "logs", "ready"}
    /\ web.socks[k].open

C22_IsStatus(msg) == msg.type = "status"

\* the log events among the messages of an inbox, in order
C22_LogsOf(box) ==
    LET ls == SelectSeq(box, LAMBDA msg : msg.type = "log")
    IN  [j \in 1..Len(ls) |-> Log(ls[j].tag, ls[j].level, ls[j].n, ls[j].m)]

\* C22: every log event of the session reaches every socket attached to the
\* session whose connection is open, each followed by a status message built
\* from the session object as it is at that moment, and reaches no socket of
\* another session and no socket that is closed or not yet attached.
C22_LogsReachObservers ==
    [][\A k \in SockIds :
         LET box == web'.inbox[k] IN
         IF C22_Attached(k) /\ web'.socks = web.socks
         THEN /\ C22_LogsOf(box) = logs'
              /\ Len(box) = 2 * Len(logs')
              /\ \A j \in 1..Len(logs') :
                   /\ box[2 * j - 1].type = "log"
                   /\ box[2 * j].type = "status"
                   /\ s' = s => box[2 * j] = Status(s)
                   /\ box[2 * j - 1].tag = "delivered"
                        => box[2 * j].totalSent = box[2 * j - 1].n
                   /\ box[2 * j - 1].tag = "abort" => box[2 * j].isActive
         ELSE box = <<>>]_vars

\* a delivery is logged while one open socket of the session and one open
\* socket of another session are attached
C22_Witness ==
    /\ HasLog(logs, "delivered")
    /\ \E k, q \in SockIds :
         /\ web.socks[k].sid = 1 /\ web.socks[k].pc = "ready" /\ web.socks[k].open
         /\ web.socks[q].sid = 2 /\ web.socks[q].pc = "ready" /\ web.socks[q].open
         /\ Len(web.inbox[k]) = 2
         /\ web.inbox[q] = <<>>

\* C23: a channel loop whose delivery attempt returns 401 ends with outcome
\* token_invalid, whether or not the cancellation flag is set when the
\* attempt returns.
C23_UnauthorizedIsTokenInvalid ==
    [][\A r \in RunIds : \A i \in DOMAIN Loops(r) :
         (runs[r].phase = "loops" /\ AttemptReturn(r, i, "401", 0, 0, 0))
            => \/ /\ i \in DOMAIN runs'[r].loops
                  /\ runs'[r].loops[i].pc = "done"
                  /\ runs'[r].loops[i].out = "token_invalid"
               \/ /\ runs'[r].phase = "fin"
                  /\ runs'[r].loopResult = "token_invalid"]_vars

\* the channel loops of the session that have not returned
C24_Running ==
    {x \in RunIds \X (1..MaxLoops) :
        x[2] \in DOMAIN Loops(x[1]) /\ LiveLoop(Loops(x[1])[x[2]])}

\* C24: in every state activeThreads is the number of channel loops of the
\* session that are running, and it is 0 when the session is idle.
C24_ThreadsCountLoops ==
    /\ s.activeThreads = Cardinality(C24_Running)
    /\ ~s.isActive => s.activeThreads = 0

\* the same once the loops of the run are launched
C24_ThreadsCountLaunched ==
    (\E r \in RunIds : /\ runs[r].phase = "loops"
                        /\ \A q \in RunIds \ {r} : ~HasLiveLoop(runs[q]))
        => s.activeThreads = Cardinality(C24_Running)

\* C25: the finally block of a run is entered only when every channel loop
\* of the run has returned or thrown; so while a channel loop of the session
\* is running the session is active.
C25_FinalizeAfterLoops ==
    /\ \A r \in RunIds : HasLiveLoop(runs[r]) => s.isActive
    /\ \A r \in RunIds :
         runs[r].phase \in {"fin", "tokfin", "supSleep", "supRead", "supCall", "end"}
            => ~HasLiveLoop(runs[r])

\* C26: shouldStop implies isActive in every state; the flag goes up only on
\* an active session, goes down only when a finally block resets it together
\* with isActive, and is down when a new run begins.
C26_StopOnlyWhileActive ==
    [][/\ s'.shouldStop => s'.isActive
       /\ (~s.shouldStop /\ s'.shouldStop) => s.isActive
       /\ (s.shouldStop /\ ~s'.shouldStop)
            => /\ ~s'.isActive
               /\ \E r \in RunIds : runs[r].phase # "fin" /\ runs'[r].phase = "fin"
       /\ \A r \in RunIds :
            (runs[r].phase # "persist" /\ runs'[r].phase = "persist")
               => (~s'.shouldStop /\ s'.isActive)]_vars

\* a stop was requested on the active session and a new start waits for the
\* shutdown to finish
C26_Witness ==
    /\ s.shouldStop
    /\ s.isActive
    /\ \E r \in RunIds : runs[r].phase = "wait"

\* C27: once stopSender has stopped the active session and has returned,
\* and as long as no start request follows, the run ends by the shutdown
\* branch, no run enters the supervisor, and no supervisor starts the
\* session again.
C27_StopIsFinal ==
    [][(userStop /\ userStop' /\ stopCall = "none")
         => \A r \in RunIds :
              /\ (runs[r].phase \in {"persist", "resolve", "loops"} /\ runs'[r].phase = "fin")
                   => runs'[r].userWantedStop
              /\ (runs[r].phase = "fin" /\ runs'[r].phase # "fin" /\ runs[r].userWantedStop)
                   => /\ HasLog(logs', "shutdown")
                      /\ runs'[r].phase \in {"free", "end"}
              /\ (runs[r].phase # "persist" /\ runs'[r].phase = "persist")
                   => runs'[r].caller = 0]_vars

\* C28: when every incrementSent call issued by the channel loops of the
\* session has completed, the persisted totalSent has grown by the number of
\* calls, and so equals the in-memory totalSent (both start at 0).
C28_NoLostIncrement ==
    (incs = {} /\ db.exists) => db.totalSent = s.totalSent

\* loop i of run r is in interruptibleSleep
C29_Sleeps(rs, r, i) ==
    i \in DOMAIN rs[r].loops /\ rs[r].loops[i].pc \in {"stagger", "sleep"}

\* C29: a sleep begins to wait only when the cancellation flag is down (it
\* resolves false at once otherwise); it ends once, by its timer or by a
\* 200 ms poll that finds the flag up; a loop goes on to a delivery attempt
\* only after its timer has fired with the flag down, a supervisor goes on to
\* read the row only after its timer has fired; after a poll the loop has
\* returned and the supervisor has ended without calling startSender, and a
\* loop that has returned stays so.
C29_SleepResolves ==
    [][\A r \in RunIds :
         /\ \A i \in 1..MaxLoops :
              /\ (~C29_Sleeps(runs, r, i) /\ C29_Sleeps(runs', r, i)) => ~s.shouldStop
              /\ (C29_Sleeps(runs, r, i) /\ ~C29_Sleeps(runs', r, i))
                   => (SleepTimer(r, i) \/ SleepPoll(r, i))
              /\ (C29_Sleeps(runs, r, i) /\ i \in DOMAIN runs'[r].loops
                    /\ runs'[r].loops[i].pc = "attempt")
                   => (SleepTimer(r, i) /\ ~s.shouldStop)
              /\ (C29_Sleeps(runs, r, i) /\ SleepPoll(r, i))
                   => /\ s.shouldStop
                      /\ i \in DOMAIN runs'[r].loops => runs'[r].loops[i].pc = "done"
              /\ (i \in DOMAIN Loops(r) /\ Loops(r)[i].pc = "done"
                    /\ runs'[r].phase = runs[r].phase /\ i \in DOMAIN runs'[r].loops)
                   => runs'[r].loops[i].pc = "done"
         /\ (runs[r].phase # "supSleep" /\ runs'[r].phase = "supSleep") => ~s.shouldStop
         /\ (runs[r].phase = "supSleep" /\ runs'[r].phase # "supSleep")
              => (SupTimer(r) \/ SupPoll(r))
         /\ (runs[r].phase = "supSleep" /\ runs'[r].phase = "supRead") => SupTimer(r)
         /\ (runs[r].phase = "supSleep" /\ SupPoll(r))
              => /\ s.shouldStop
                 /\ runs'[r].phase \in {"free", "end"}
                 /\ \A q \in RunIds : runs'[q].caller = r => runs[q].caller = r
                 /\ ~HasLog(logs', "restarting")]_vars

\* a supervisor began an iteration while the flag was up: its sleep resolved
\* false at once and the supervisor has ended
C29_Witness ==
    /\ s.shouldStop
    /\ HasLog(logs, "autorestart")
    /\ \A r \in RunIds : runs[r].phase # "supSleep"

AlreadyRunning == "Sender is already running"

\* the invocation in slot r has returned val in this step
C30_Returned(r, val) ==
    /\ runs'[r].phase = "free"
    /\ IF runs[r].caller = 0
       THEN ret' = [op |-> "start", caller |-> 0, val |-> val]
       ELSE ret'.op = "start" /\ ret'.caller = runs[r].caller /\ ret'.val = val

\* the invocation in slot r has gone on to validation in this step: it has
\* activated the session, or has returned the error of a later check
C30_Validated(r) ==
    \/ runs'[r].phase = "persist" /\ runs'[r].args = runs[r].args
    \/ runs'[r].phase = "free" /\ ret'.op = "start" /\ ret'.val # AlreadyRunning

\* C30 as stated: no 300 ms timer of a waiting startSender call fires later
\* than 5 seconds after the call began to wait.
C30_WaitWithinFiveSeconds ==
    [][\A r \in RunIds :
         (runs[r].phase = "wait" /\ WaitTick(r)) => runs[r].waited + 300 <= 5000]_vars

\* C30 as amended: a call that finds the session mid-shutdown waits in
\* 300 ms steps while the session is active and the time waited is below
\* 5000 ms, which makes at most 17 steps and 5100 ms; it goes on to
\* validation when it finds the session idle at one of these steps and
\* returns the already-running error otherwise; a start request on an active
\* session that is not shutting down fails at once.
C30_MidShutdownWait ==
    [][/\ \A r \in RunIds :
            /\ (runs[r].phase = "wait" /\ WaitTick(r))
                 => LET w == runs[r].waited + 300 IN
                    /\ w <= 5100
                    /\ ~s.isActive => C30_Validated(r)
                    /\ (s.isActive /\ w < 5000)
                         => runs'[r] = [runs[r] EXCEPT !.waited = w]
                    /\ (s.isActive /\ w >= 5000)
                         => (C30_Returned(r, AlreadyRunning) /\ s' = s /\ db' = db)
            /\ (runs[r].phase # "wait" /\ runs'[r].phase = "wait")
                 => (s.isActive /\ s.shouldStop /\ runs'[r].waited = 0 /\ s' = s)
            /\ runs'[r].phase = "wait"
                 => (runs'[r].waited <= 4800 /\ runs'[r].waited % 300 = 0)
       /\ \A a \in StartInputs :
            /\ (StartRequest(a) /\ s.isActive /\ ~s.shouldStop)
                 => /\ ret' = [op |-> "start", caller |-> 0, val |-> AlreadyRunning]
                    /\ runs' = runs /\ s' = s /\ db' = db
            /\ (StartRequest(a) /\ s.isActive /\ s.shouldStop)
                 => /\ ret'.op = "none"
                    /\ \E r \in RunIds : runs[r].phase = "free" /\ runs'[r].phase = "wait"]_vars

\* a call has waited sixteen steps and its seventeenth timer is pending
C30_Witness ==
    \E r \in RunIds :
        /\ runs[r].phase = "wait"
        /\ runs[r].waited = 4800
        /\ s.isActive

\* the channel loop at position i of run r is in its stagger wait
C31_InStagger(rs, r, i) == i \in DOMAIN rs[r].loops /\ rs[r].loops[i].pc = "stagger"

\* the channel loop at position i of run r has ended without a request
\* in flight: it is no longer among the loops the run follows, or it has
\* returned "stopped"
C31_EndedStopped(rs, r, i) ==
    \/ i \notin DOMAIN rs[r].loops
    \/ /\ rs[r].loops[i].pc = "done"
       /\ rs[r].phase = "loops" => rs[r].loops[i].out = "stopped"

\* C31: the channel loop at index i (position i + 1) starts behind a timer
\* of i * 2000 ms and makes its first delivery attempt only when that timer
\* fires; a stagger wait that observes the cancellation, by its interval or
\* by the loop test after its timer, ends the loop with outcome stopped and
\* with no attempt.
C31_StaggeredStart ==
    [][\A r \in RunIds, i \in 1..MaxLoops :
         /\ (~C31_InStagger(runs, r, i) /\ C31_InStagger(runs', r, i))
              => /\ runs[r].phase \in {"persist", "resolve"}
                 /\ runs'[r].phase = "loops"
                 /\ runs'[r].loops[i].ms = (i - 1) * 2000
         /\ (runs[r].phase \in {"persist", "resolve"} /\ runs'[r].phase = "loops")
              => \A j \in DOMAIN runs'[r].loops : runs'[r].loops[j].pc \in {"stagger", "done"}
         /\ C31_InStagger(runs, r, i)
              => /\ runs[r].loops[i].ms = (i - 1) * 2000
                 /\ (i \in DOMAIN runs'[r].loops /\ runs'[r].loops[i].pc = "attempt")
                      => (SleepTimer(r, i) /\ ~s.shouldStop)
                 /\ (SleepTimer(r, i) /\ s.shouldStop)
                      => (C31_EndedStopped(runs', r, i) /\ nSent' = nSent)
                 /\ SleepPoll(r, i)
                      => (C31_EndedStopped(runs', r, i) /\ nSent' = nSent)
                 /\ C31_InStagger(runs', r, i) => runs'[r].loops[i] = runs[r].loops[i]
                 /\ (i \in DOMAIN runs'[r].loops /\ ~C31_InStagger(runs', r, i))
                      => runs'[r].loops[i].pc \in {"attempt", "done"}]_vars

\* the second channel loop of a run is in its first attempt: nothing was
\* delivered yet and the loop has no failure behind it
C31_Witness ==
    \E r \in RunIds :
        /\ Len(runs[r].loops) = 2
        /\ runs[r].loops[2].pc = "attempt"
        /\ runs[r].loops[2].ce = 0
        /\ nSent = 0

\* run r is resolving labels and the cancellation has been requested
C32_Cancelled(r) == runs[r].phase = "resolve" /\ s.shouldStop

\* C32: a run that is resolving labels when the cancellation is requested
\* stays cancelled until its pending lookup returns; it then ends with outcome
\* stopped, with no channel loop started and nothing delivered, and its
\* finalization leaves the session idle.
C32_StopWhileResolving ==
    [][\A r \in RunIds :
         C32_Cancelled(r)
           => \/ /\ C32_Cancelled(r)'
                 /\ runs'[r] = runs[r]
              \/ /\ \E found \in BOOLEAN, thr \in Throws : NameFetched(r, found, thr)
                 /\ runs'[r].phase = "fin"
                 /\ runs'[r].loopResult = "stopped"
                 /\ runs'[r].userWantedStop
                 /\ runs'[r].loops = <<>>
                 /\ nSent' = nSent
                 /\ s' = [NewSession EXCEPT !.totalSent = s.totalSent]]_vars

\* a run of two destinations was cancelled during the lookup of its first
\* label and has been finalized
C32_Witness ==
    \E r \in RunIds :
        /\ runs[r].phase = "fin"
        /\ runs[r].loopResult = "stopped"
        /\ runs[r].userWantedStop
        /\ logs = <<>>
        /\ ret = NoRet
        /\ ~s.isActive
        /\ nSent = 0

\* the channel loop at position i of run r goes to sleep after a delivery
C33_SleepsAfterSent(r, i) ==
    /\ i \in DOMAIN runs[r].loops
    /\ runs[r].loops[i].pc = "attempt"
    /\ i \in DOMAIN runs'[r].loops
    /\ runs'[r].loops[i].pc = "sleep"
    /\ runs'[r].loops[i].kind = "sent"

\* C33 as stated: after a delivery with delaySeconds d the wait before the
\* next attempt is at least 0.9 d and at most 1.1 d seconds.
C33_WaitWithinTenPercent ==
    [][\A r \in RunIds, i \in 1..MaxLoops :
         C33_SleepsAfterSent(r, i)
           => LET d == runs[r].args.delay IN
              /\ 10 * runs'[r].loops[i].ms >= 9 * d * 1000
              /\ 10 * runs'[r].loops[i].ms <= 11 * d * 1000]_vars

\* C33 as amended: after a delivery with delaySeconds d in [10, 250] the
\* wait before the next attempt is a whole number of seconds, at least
\* 0.9 d and at most 1.1 d + 1.
C33_WaitRoundedUp ==
    [][\A r \in RunIds, i \in 1..MaxLoops :
         C33_SleepsAfterSent(r, i)
           => LET d == runs[r].args.delay IN
              /\ d \in 10..250
              /\ runs'[r].loops[i].ms % 1000 = 0
              /\ 10 * runs'[r].loops[i].ms >= 9 * d * 1000
              /\ 10 * runs'[r].loops[i].ms <= (11 * d + 10) * 1000]_vars

\* a loop with delaySeconds 15 sleeps 17 seconds after a delivery
C33_Witness ==
    \E r \in RunIds :
        /\ runs[r].args.delay = 15
        /\ Len(runs[r].loops) = 1
        /\ runs[r].loops[1].pc = "sleep"
        /\ runs[r].loops[1].kind = "sent"
        /\ runs[r].loops[1].ms = 17000

\* no invocation of startSender is between its entry and its return, and no
\* run is in its finally block
C34_Quiescent(rs) ==
    \A r \in RunIds : rs[r].phase \in {"free", "loops", "supSleep", "supRead", "end"}

\* C34: once the finalization write of a run has completed and no run is
\* starting or finalizing, the isActive column of the session's row equals
\* the isActive of the session in memory.
C34_StatusAgrees ==
    [][\A r \in RunIds :
         (FinalStatusDone(r) /\ db'.exists /\ C34_Quiescent(runs'))
           => db'.isActive = s'.isActive]_vars

\* what a call of fetchChannelName gave its caller
C35_Gave(res, channelId, label, fetched) ==
    res = [fn |-> "name", id |-> channelId, rejected |-> FALSE, label |-> label,
           fetched |-> fetched]

\* C35: fetchChannelName never rejects; it returns the cached name without a
\* lookup when there is one, otherwise the name it fetched, stored under that
\* channel id and no other, otherwise the channel id itself; a lookup that
\* failed leaves the cache as it was, so that the next call for the id looks
\* it up again.
C35_ResolverNeverFails ==
    [][/\ \A c \in AllChans :
            NameCall(c)
              => IF c \in DOMAIN channelNames
                 THEN /\ C35_Gave(fnRes', c, channelNames[c], FALSE)
                      /\ fnArg' = fnArg
                      /\ channelNames' = channelNames
                 ELSE /\ fnArg' = Append(fnArg, c)
                      /\ channelNames' = channelNames
       /\ \A j \in DOMAIN fnArg, o \in Lookups :
            NameReturn(j, o)
              => LET c == fnArg[j] IN
                 /\ Len(fnArg') = Len(fnArg) - 1
                 /\ \A x \in AllChans \ {c} :
                      /\ (x \in DOMAIN channelNames') = (x \in DOMAIN channelNames)
                      /\ x \in DOMAIN channelNames => channelNames'[x] = channelNames[x]
                 /\ o = "named"
                      => /\ C35_Gave(fnRes', c, NameOf(c), TRUE)
                         /\ c \in DOMAIN channelNames' /\ channelNames'[c] = NameOf(c)
                 /\ o = "unnamed"
                      => /\ C35_Gave(fnRes', c, c, TRUE)
                         /\ c \in DOMAIN channelNames' /\ channelNames'[c] = c
                 /\ o \in {"notok", "neterr", "badjson"}
                      => /\ C35_Gave(fnRes', c, c, TRUE)
                         /\ channelNames' = channelNames
       /\ fnRes' # NoRes => ~fnRes'.rejected]_vars

\* a lookup has failed after another id was cached: the caller got the id
\* back and the cache holds nothing for it
C35_Witness ==
    /\ fnRes # NoRes
    /\ fnRes.fetched
    /\ fnRes.label = fnRes.id
    /\ fnRes.id \notin DOMAIN channelNames
    /\ DOMAIN channelNames # {}

\* C36: once the handler that locked the site has answered, the session,
\* which is not approved, has no configs row and no sender that is active
\* and not stopping.
C36_LockedOut ==
    (site.pc = "done" /\ site.isLocked /\ ~site.approved)
        => (~db.exists /\ ~(s.isActive /\ ~s.shouldStop))

\* the supervisor of run r is between the start of an iteration and its end
C37_SupervisorPending(r) == runs[r].phase \in {"supSleep", "supRead", "supCall"}

\* C37: at most one restart supervisor of the session is pending.
C37_OneSupervisor ==
    \A p, q \in RunIds : (C37_SupervisorPending(p) /\ C37_SupervisorPending(q)) => p = q

(***************************************************************************)
(* C38: stopSender on an idle session whose supervisor waits               *)
(***************************************************************************)

\* the session is idle and a supervisor of it sleeps in line 542
C38_IdleWaiting ==
    /\ ~s.isActive
    /\ \E r \in RunIds : runs[r].phase = "supSleep"

\* lines 568-571: such a call answers success:false and changes nothing
C38_StopChangesNothing ==
    (C38_IdleWaiting /\ StopRequest)
        => /\ ret' = [op |-> "stop", caller |-> 0, val |-> "false"]
           /\ s' = s
           /\ db' = db
           /\ runs' = runs
           /\ stopCall' = "none"

\* the row the supervisor reads in line 544 lets line 545 pass
C38_IntentKept == db.exists /\ db.userWantsActive

\* the row the supervisor reads stops it in line 549
C38_Incomplete == db.token = "" \/ db.message = "" \/ db.channelIds = <<>>

C39_Delivered(ls) == {j \in DOMAIN ls : ls[j].tag = "delivered"}

\* line 634 seeds the counter; it does so before the first delivery
C39_Seeding == boot.pc = "loop" /\ nSent = 0

\* C39: within one session the totals carried by successive delivery logs
\* grow by exactly 1 and no two carry the same total, whatever the number of
\* loops: a step logs at most one delivery, the log carries the counter plus
\* 1, that value is the counter afterwards, and no step in between changes
\* the counter.
C39_TotalsGrowByOne ==
    [][LET D == C39_Delivered(logs') IN
       /\ Cardinality(D) <= 1
       /\ \A j \in D : /\ logs'[j].n = s.totalSent + 1
                       /\ s'.totalSent = logs'[j].n
       /\ D = {} => (s'.totalSent = s.totalSent \/ C39_Seeding)]_vars

\* the second loop of a run logs total 2 while the first, which logged
\* total 1, sleeps before its next send
C39_Witness ==
    /\ \E j \in DOMAIN logs : logs[j].tag = "delivered" /\ logs[j].n = 2
    /\ s.totalSent = 2
    /\ \E r \in RunIds :
         /\ DOMAIN runs[r].loops = {1, 2}
         /\ \A i \in {1, 2} : runs[r].loops[i].pc = "sleep" /\ runs[r].loops[i].kind = "sent"

====
